---- MODULE Spec2Model ----
(***************************************************************************)
(* Model of mcp-code-crosscheck: the model-family matcher, the fallback    *)
(* hints, the generation-model detection, the review tool handlers of the  *)
(* server revisions under src/, and the reviewer-response parser.          *)
(*                                                                         *)
(* Strings are sequences of one-character strings, so that toLowerCase,    *)
(* includes, and the regular expressions of utils.ts are computed and not  *)
(* assumed.                                                                *)
(***************************************************************************)
EXTENDS Integers, Sequences, FiniteSets, TLC

VARIABLES
    mode,        \* which part of the program this behaviour exercises
    \* ---- family matcher (utils.ts hasModelOverlap / shouldExcludeModel)
    m1, m2,      \* the two identifiers handed to the matcher
    ovl,         \* [done, overlap, exclude]: the matcher's answers once done
    \* ---- review tool call (server.ts CallTool handler)
    handler,     \* which revision / tool handles the call
    args,        \* validated arguments of the call
    env,         \* what the collaborators will answer (gh CLI, client sampling)
    pc,          \* position of the handler
    genModel,    \* resolved generation model (detectedModel / generationModel)
    requests,    \* sampling requests issued so far, in order
    outcomes,    \* results returned by the handler, in order
    \* ---- response parser (utils.ts parseReviewResponse)
    content,     \* structured content c, as the reviewer writes it (tokens)
    text,        \* the same content wrapped in a fenced block
    parsed,      \* [done, plain, wrapped]: parseReviewResponse of content, of text
    \* ---- authorship detection (utils.ts detectModelFromCoAuthors)
    coAuthors,   \* the authors list handed to the detector
    detected,    \* [done, current, earlier]: the answers of the two revisions
    \* ---- concurrent review calls (part_004 CallTool handler)
    calls,       \* per call: its arguments, position, request, reply, outcome
    cachedPrompts, \* the module-level prompt cache of loadPrompts
    \* ---- commit metadata (utils.ts fetchCommit)
    data,        \* what the gh api call answers: failure, primary author, message
    fetched,     \* [done, ok, authors, model]: fetchCommit's result and its detection
    \* ---- resources (server.ts ReadResource handler)
    uri,         \* the uri of the ReadResource request
    resource     \* [done, ok, reviewType]: the handler's answer

matcherVars == <<m1, m2, ovl>>
reviewVars  == <<handler, args, env, pc, genModel, requests, outcomes>>
parserVars  == <<content, text, parsed>>
detectVars  == <<coAuthors, detected>>
vars == <<mode, m1, m2, ovl, handler, args, env, pc, genModel, requests, outcomes,
          content, text, parsed, coAuthors, detected, calls, cachedPrompts,
          data, fetched, uri, resource>>
concurrentVars == <<calls, cachedPrompts>>
commitVars == <<data, fetched>>
resourceVars == <<uri, resource>>

-----------------------------------------------------------------------------
(* Strings *)

UpperChars == <<"A","B","C","D","E","F","G","H","I","J","K","L","M",
                "N","O","P","Q","R","S","T","U","V","W","X","Y","Z">>
LowerChars == <<"a","b","c","d","e","f","g","h","i","j","k","l","m",
                "n","o","p","q","r","s","t","u","v","w","x","y","z">>

IsLowerAlpha(c) == \E i \in 1..Len(LowerChars) : LowerChars[i] = c

LowerChar(c) ==
    IF \E i \in 1..Len(UpperChars) : UpperChars[i] = c
    THEN LowerChars[CHOOSE i \in 1..Len(UpperChars) : UpperChars[i] = c]
    ELSE c

\* String.prototype.toLowerCase
toLowerCase(s) == [i \in 1..Len(s) |-> LowerChar(s[i])]

\* does w occur in s at index i (1-based)
MatchesAt(s, w, i) ==
    /\ i >= 1
    /\ i + Len(w) - 1 <= Len(s)
    /\ \A k \in 1..Len(w) : s[i + k - 1] = w[k]

\* String.prototype.includes
includes(s, w) == \E i \in 1..(Len(s) + 1) : MatchesAt(s, w, i)

LF == "\n"

\* JavaScript truthiness of a string: the empty string is falsy
Truthy(s) == Len(s) > 0

-----------------------------------------------------------------------------
(* utils.ts: hasModelOverlap, shouldExcludeModel *)

\* the alternatives of baseModelPattern, in the order of the regex
BaseNames == << <<"g","p","t">>,
                <<"c","l","a","u","d","e">>,
                <<"g","e","m","i","n","i">>,
                <<"l","l","a","m","a">>,
                <<"m","i","s","t","r","a","l">>,
                <<"p","h","i">>,
                <<"c","o","d","e","s","t","r","a","l">>,
                <<"d","e","e","p","s","e","e","k">>,
                <<"q","w","e","n">> >>

\* the alternatives of providerPattern, in the order of the regex
Providers == << <<"o","p","e","n","a","i">>,
                <<"a","n","t","h","r","o","p","i","c">>,
                <<"g","o","o","g","l","e">>,
                <<"m","e","t","a">>,
                <<"m","i","c","r","o","s","o","f","t">>,
                <<"m","i","s","t","r","a","l">>,
                <<"d","e","e","p","s","e","e","k">>,
                <<"a","l","i","b","a","b","a">> >>

\* no match: the optional chain ?.[1] yields undefined
Undefined == <<>>

\* s.match(/^(gpt|claude|...)/i)?.[1]: the first alternative matching at 0
BaseOf(s) ==
    LET hits == {k \in 1..Len(BaseNames) : MatchesAt(toLowerCase(s), BaseNames[k], 1)}
    IN  IF hits = {} THEN Undefined
        ELSE LET k == CHOOSE x \in hits : \A y \in hits : x <= y
             IN  SubSeq(s, 1, Len(BaseNames[k]))

\* s.match(/(openai|anthropic|...)/i)?.[1]: leftmost position, then the
\* first alternative matching there
ProviderOf(s) ==
    LET low  == toLowerCase(s)
        at(i) == {k \in 1..Len(Providers) : MatchesAt(low, Providers[k], i)}
        pos  == {i \in 1..Len(s) : at(i) # {}}
    IN  IF pos = {} THEN Undefined
        ELSE LET i == CHOOSE x \in pos : \A y \in pos : x <= y
                 k == CHOOSE x \in at(i) : \A y \in at(i) : x <= y
             IN  SubSeq(s, i, i + Len(Providers[k]) - 1)

\* s.match(/[a-z]{4,}/g) || []: the maximal runs of lower-case letters of
\* length at least MinRun (as a set: the code only tests membership)
MinRun == 4

SignificantParts(s) ==
    LET isRun(i, j) ==
            /\ j - i + 1 >= MinRun
            /\ \A k \in i..j : IsLowerAlpha(s[k])
            /\ (i = 1 \/ ~IsLowerAlpha(s[i - 1]))
            /\ (j = Len(s) \/ ~IsLowerAlpha(s[j + 1]))
    IN  {SubSeq(s, i, j) : <<i, j>> \in
            {p \in (1..Len(s)) \X (1..Len(s)) : p[1] <= p[2] /\ isRun(p[1], p[2])}}

\* variant: two recognised base names that differ do not end the comparison
hasModelOverlap_NoEarlyReturn(model1, model2) ==
    LET a == toLowerCase(model1)
        b == toLowerCase(model2)
        aBase == BaseOf(a)
        bBase == BaseOf(b)
        aProvider == ProviderOf(a)
        bProvider == ProviderOf(b)
    IN  IF Truthy(aBase) /\ Truthy(bBase) /\ aBase = bBase
        THEN TRUE
        ELSE IF Truthy(aProvider) /\ Truthy(bProvider) /\ aProvider = bProvider
        THEN TRUE
        ELSE \E part1 \in SignificantParts(a) :
                 \E part2 \in SignificantParts(b) : part1 = part2

\* variant: two recognised providers overlap whether or not they are equal
hasModelOverlap_AnyProvider(model1, model2) ==
    LET a == toLowerCase(model1)
        b == toLowerCase(model2)
        aBase == BaseOf(a)
        bBase == BaseOf(b)
        aProvider == ProviderOf(a)
        bProvider == ProviderOf(b)
    IN  IF Truthy(aBase) /\ Truthy(bBase)
        THEN aBase = bBase
        ELSE IF Truthy(aProvider) /\ Truthy(bProvider)
        THEN TRUE
        ELSE \E part1 \in SignificantParts(a) :
                 \E part2 \in SignificantParts(b) : part1 = part2

\* variant: the extracted base names and providers are compared without
\* testing that they were found
hasModelOverlap_NoTruthy(model1, model2) ==
    LET a == toLowerCase(model1)
        b == toLowerCase(model2)
        aBase == BaseOf(a)
        bBase == BaseOf(b)
        aProvider == ProviderOf(a)
        bProvider == ProviderOf(b)
    IN  IF aBase = bBase
        THEN TRUE
        ELSE IF aProvider = bProvider
        THEN TRUE
        ELSE \E part1 \in SignificantParts(a) :
                 \E part2 \in SignificantParts(b) : part1 = part2

\* variant: the base name of the first identifier is looked for anywhere
\* in the second
hasModelOverlap_BaseInSecond(model1, model2) ==
    LET a == toLowerCase(model1)
        b == toLowerCase(model2)
        aBase == BaseOf(a)
        aProvider == ProviderOf(a)
        bProvider == ProviderOf(b)
    IN  IF Truthy(aBase)
        THEN includes(b, aBase)
        ELSE IF Truthy(aProvider) /\ Truthy(bProvider) /\ aProvider = bProvider
        THEN TRUE
        ELSE \E part1 \in SignificantParts(a) :
                 \E part2 \in SignificantParts(b) : part1 = part2

hasModelOverlap(model1, model2) ==
    LET a == toLowerCase(model1)
        b == toLowerCase(model2)
        aBase == BaseOf(a)
        bBase == BaseOf(b)
        aProvider == ProviderOf(a)
        bProvider == ProviderOf(b)
    IN  IF Truthy(aBase) /\ Truthy(bBase)
        THEN aBase = bBase
        ELSE IF Truthy(aProvider) /\ Truthy(bProvider) /\ aProvider = bProvider
        THEN TRUE
        ELSE \E part1 \in SignificantParts(a) :
                 \E part2 \in SignificantParts(b) : part1 = part2

shouldExcludeModel(generationModel, candidateModel) ==
    IF generationModel = candidateModel THEN TRUE
    ELSE hasModelOverlap(generationModel, candidateModel)

-----------------------------------------------------------------------------
(* utils.ts: createFallbackHints *)

Sgpt       == <<"g","p","t">>
Sopenai    == <<"o","p","e","n","a","i">>
Sclaude    == <<"c","l","a","u","d","e">>
Santhropic == <<"a","n","t","h","r","o","p","i","c">>
Sgemini    == <<"g","e","m","i","n","i">>
Sgoogle    == <<"g","o","o","g","l","e">>
Sllama     == <<"l","l","a","m","a">>
Smeta      == <<"m","e","t","a">>

\* variant: a claude / anthropic generator gets the list of the unknown models
createFallbackHints_ClaudeDefault(generationModel) ==
    LET modelLower == toLowerCase(generationModel)
    IN  IF includes(modelLower, Sgpt) \/ includes(modelLower, Sopenai)
        THEN <<Sclaude, Sgemini>>
        ELSE IF includes(modelLower, Sgemini) \/ includes(modelLower, Sgoogle)
        THEN <<Sclaude, Sgpt, Sopenai>>
        ELSE <<Sclaude, Sgpt, Sgemini>>

\* the names of the hints ({name: ...}), in order
createFallbackHints(generationModel) ==
    LET modelLower == toLowerCase(generationModel)
    IN  IF includes(modelLower, Sgpt) \/ includes(modelLower, Sopenai)
        THEN <<Sclaude, Sgemini>>
        ELSE IF includes(modelLower, Sclaude) \/ includes(modelLower, Santhropic)
        THEN <<Sgpt, Sgemini, Sopenai>>
        ELSE IF includes(modelLower, Sgemini) \/ includes(modelLower, Sgoogle)
        THEN <<Sclaude, Sgpt, Sopenai>>
        ELSE IF includes(modelLower, Sllama) \/ includes(modelLower, Smeta)
        THEN <<Sclaude, Sgpt, Sgemini>>
        ELSE <<Sclaude, Sgpt, Sgemini>>

-----------------------------------------------------------------------------
(* utils.ts: createModelPreferences *)

\* variant: excludeFamily holds the identifier as given
createModelPreferences_FamilyAsGiven(generationModel) ==
    [excludeModel  |-> generationModel,
     excludeFamily |-> generationModel,
     reviewContext |-> "bias_resistant_code_review"]

createModelPreferences(generationModel) ==
    [excludeModel  |-> generationModel,
     excludeFamily |-> toLowerCase(generationModel),
     reviewContext |-> "bias_resistant_code_review"]

-----------------------------------------------------------------------------
(* utils.ts: detectModelFromCoAuthors *)

\* an author record; has = the fields that are present
Author(has, name, email, login) ==
    [has |-> has, name |-> name, email |-> email, login |-> login]

\* (author.name || ''): a missing field reads as the empty string
FieldOr(author, f) == IF f \in author.has THEN author[f] ELSE <<>>

Iclaude    == <<"c","l","a","u","d","e">>
Igpt4      == <<"g","p","t","-","4">>
Icopilot   == <<"g","i","t","h","u","b","-","c","o","p","i","l","o","t">>
Igemini    == <<"g","e","m","i","n","i">>
Scopilot   == <<"c","o","p","i","l","o","t">>
Sbard      == <<"b","a","r","d">>
SanthropicCom == <<"a","n","t","h","r","o","p","i","c",".","c","o","m">>
SopenaiCom == <<"o","p","e","n","a","i",".","c","o","m">>
SgithubCom == <<"g","i","t","h","u","b",".","c","o","m">>
SgoogleCom == <<"g","o","o","g","l","e",".","c","o","m">>

\* variant: an e-mail address at github.com is enough for Copilot
AuthorModel_GithubAlone(author) ==
    LET name  == toLowerCase(FieldOr(author, "name"))
        email == toLowerCase(FieldOr(author, "email"))
        login == toLowerCase(FieldOr(author, "login"))
    IN  IF includes(name, Sclaude) \/ includes(email, SanthropicCom) \/ includes(login, Sclaude)
        THEN Iclaude
        ELSE IF \/ includes(name, Sgpt) \/ includes(name, Sopenai)
                \/ includes(email, SopenaiCom) \/ includes(login, Sgpt)
        THEN Igpt4
        ELSE IF includes(name, Scopilot) \/ includes(email, SgithubCom)
        THEN Icopilot
        ELSE IF includes(name, Sgemini) \/ includes(name, Sbard) \/ includes(email, SgoogleCom)
        THEN Igemini
        ELSE <<>>

\* the model one author maps to; <<>> (null) when no signature matches
AuthorModel(author) ==
    LET name  == toLowerCase(FieldOr(author, "name"))
        email == toLowerCase(FieldOr(author, "email"))
        login == toLowerCase(FieldOr(author, "login"))
    IN  IF includes(name, Sclaude) \/ includes(email, SanthropicCom) \/ includes(login, Sclaude)
        THEN Iclaude
        ELSE IF \/ includes(name, Sgpt) \/ includes(name, Sopenai)
                \/ includes(email, SopenaiCom) \/ includes(login, Sgpt)
        THEN Igpt4
        ELSE IF includes(name, Scopilot) \/ (includes(email, SgithubCom) /\ includes(login, Scopilot))
        THEN Icopilot
        ELSE IF includes(name, Sgemini) \/ includes(name, Sbard) \/ includes(email, SgoogleCom)
        THEN Igemini
        ELSE <<>>

\* variant: the loop goes on after a match, the last matching author decides
RECURSIVE detectModelFromCoAuthors_LastWins(_)
detectModelFromCoAuthors_LastWins(authors) ==
    IF authors = <<>> THEN <<>>
    ELSE IF detectModelFromCoAuthors_LastWins(Tail(authors)) # <<>>
    THEN detectModelFromCoAuthors_LastWins(Tail(authors))
    ELSE AuthorModel(Head(authors))

\* for (const author of authors): the first author that maps to a model
\* decides; <<>> stands for null
RECURSIVE detectModelFromCoAuthors(_)
detectModelFromCoAuthors(authors) ==
    IF authors = <<>> THEN <<>>
    ELSE IF AuthorModel(Head(authors)) # <<>> THEN AuthorModel(Head(authors))
    ELSE detectModelFromCoAuthors(Tail(authors))

\* the earlier revision reads author.name.toLowerCase() and the like with no
\* default: an author lacking one of the three fields raises a TypeError
\* when the loop reaches it.  Result [raised, model].
RECURSIVE detectModelFromCoAuthorsEarlier(_)
detectModelFromCoAuthorsEarlier(authors) ==
    IF authors = <<>> THEN [raised |-> FALSE, model |-> <<>>]
    ELSE IF {"name", "email", "login"} \ Head(authors).has # {}
    THEN [raised |-> TRUE, model |-> <<>>]
    ELSE IF AuthorModel(Head(authors)) # <<>>
    THEN [raised |-> FALSE, model |-> AuthorModel(Head(authors))]
    ELSE detectModelFromCoAuthorsEarlier(Tail(authors))

-----------------------------------------------------------------------------
(* utils.ts: detectGenerationModel *)

\* what the gh CLI answers to fetchPRCommits / fetchCommit: the call throws
\* (ok = FALSE) or gives the commits, each commit being its authors list
GhFailed == [ok |-> FALSE, commits |-> <<>>]
GhCommits(cs) == [ok |-> TRUE, commits |-> cs]

\* variant: the loop over the commits goes on, the last detection is returned
RECURSIVE FirstDetected_LastCommit(_)
FirstDetected_LastCommit(commits) ==
    IF commits = <<>> THEN <<>>
    ELSE IF FirstDetected_LastCommit(Tail(commits)) # <<>>
    THEN FirstDetected_LastCommit(Tail(commits))
    ELSE detectModelFromCoAuthors(Head(commits))

\* for (const commit of commits): the first commit with a detected model
RECURSIVE FirstDetected(_)
FirstDetected(commits) ==
    IF commits = <<>> THEN <<>>
    ELSE IF detectModelFromCoAuthors(Head(commits)) # <<>>
    THEN detectModelFromCoAuthors(Head(commits))
    ELSE FirstDetected(Tail(commits))

ErrMissingModel == "Could not detect generation model"

\* variant: the caller's value is returned whenever it was passed, empty or not
detectGenerationModel_AcceptsEmpty(hasPR, pr, hasCommit, commit, provided) ==
    LET fromPR == IF hasPR /\ pr.ok THEN FirstDetected(pr.commits) ELSE <<>>
        fromCommit == IF hasCommit /\ commit.ok /\ Len(commit.commits) > 0
                      THEN detectModelFromCoAuthors(commit.commits[1]) ELSE <<>>
    IN  IF fromPR # <<>> THEN [ok |-> TRUE, model |-> fromPR, error |-> ""]
        ELSE IF fromCommit # <<>> THEN [ok |-> TRUE, model |-> fromCommit, error |-> ""]
        ELSE IF provided.given
        THEN [ok |-> TRUE, model |-> provided.value, error |-> ""]
        ELSE [ok |-> FALSE, model |-> <<>>, error |-> ErrMissingModel]

\* hasPR / hasCommit: prNumber / commitHash are truthy; pr / commit: the gh
\* answers; provided: [given, value], the caller's generationModel.
\* Result [ok, model, error]: ok = FALSE stands for the thrown Error.
detectGenerationModel(hasPR, pr, hasCommit, commit, provided) ==
    LET fromPR == IF hasPR /\ pr.ok THEN FirstDetected(pr.commits) ELSE <<>>
        fromCommit == IF hasCommit /\ commit.ok /\ Len(commit.commits) > 0
                      THEN detectModelFromCoAuthors(commit.commits[1]) ELSE <<>>
    IN  IF fromPR # <<>> THEN [ok |-> TRUE, model |-> fromPR, error |-> ""]
        ELSE IF fromCommit # <<>> THEN [ok |-> TRUE, model |-> fromCommit, error |-> ""]
        ELSE IF provided.given /\ Truthy(provided.value)
        THEN [ok |-> TRUE, model |-> provided.value, error |-> ""]
        ELSE [ok |-> FALSE, model |-> <<>>, error |-> ErrMissingModel]

-----------------------------------------------------------------------------
(* Reviewer text.  A text is a sequence of tokens; a token stands for the   *)
(* characters the regular expression of parseReviewResponse and JSON.parse  *)
(* tell apart: the fence (three backticks), the tag json, white space, braces, brackets,  *)
(* comma, the string quote, a member key with its colon ("summary":), a     *)
(* number, and any other character (x).                                     *)

FENCE == "fence"
JTAG  == "json"
WS    == " "
LB    == "{"
RB    == "}"
LBR   == "["
RBR   == "]"
COMMA == ","
QUOTE == "Q"
XCH   == "x"

\* "name": tokens, one per member name a reviewer response can carry
KeyTokens == {"reviewModel:", "reviewStrategy:", "summary:", "issues:", "metrics:",
              "alternative:", "biasTriggersFound:", "severity:", "description:",
              "suggestion:", "errorHandling:", "performance:", "security:",
              "maintainability:"}

\* number tokens and their values
NumTokens == <<"0", "1", "2", "3", "4", "5", "6", "7">>
IsNum(tok) == \E n \in 1..Len(NumTokens) : NumTokens[n] = tok
NumValue(tok) == (CHOOSE n \in 1..Len(NumTokens) : NumTokens[n] = tok) - 1
NumToken(n) == NumTokens[n + 1]
\* number literals with a fraction, and their integer part and tenths
FracTokens == <<"2.5", "5.5">>
FracParts  == << <<2, 5>>, <<5, 5>> >>
IsFrac(tok) == \E n \in 1..Len(FracTokens) : FracTokens[n] = tok
FracValue(tok) == FracParts[CHOOSE n \in 1..Len(FracTokens) : FracTokens[n] = tok]

\* parsed JSON values, tagged by type
JNum(n)  == [t |-> "num", v |-> <<n>>]
\* a number with a fraction: v = <<integer part, tenths>>, tenths in 1..9
JFrac(p) == [t |-> "num", v |-> p]
\* x >= b, x <= b for a number value x and an integer b
NumAtLeast(x, b) == x.v[1] >= b
NumAtMost(x, b)  == x.v[1] < b \/ (x.v[1] = b /\ Len(x.v) = 1)
JStr(cs) == [t |-> "str", v |-> cs]
JArr(xs) == [t |-> "arr", v |-> xs]
JObj(f)  == [t |-> "obj", v |-> f]
NoValue  == [t |-> "none", v |-> <<>>]
EmptyObj == [k \in {} |-> NoValue]

\* first index at or after i that holds no white space (Len + 1 at the end)
RECURSIVE SkipWs(_, _)
SkipWs(txt, i) ==
    IF i <= Len(txt) /\ txt[i] = WS THEN SkipWs(txt, i + 1) ELSE i

\* String.prototype.trim
RECURSIVE TrimEnd(_)
TrimEnd(txt) ==
    IF Len(txt) > 0 /\ txt[Len(txt)] = WS THEN TrimEnd(SubSeq(txt, 1, Len(txt) - 1))
    ELSE txt
trim(txt) == TrimEnd(SubSeq(txt, SkipWs(txt, 1), Len(txt)))

ParseFail == [ok |-> FALSE, val |-> NoValue, next |-> 0]
ParseOk(val, next) == [ok |-> TRUE, val |-> val, next |-> next]

\* JSON.parse, by recursive descent from index i
RECURSIVE ParseValue(_, _), ParseMemberList(_, _, _), ParseElemList(_, _, _)
ParseValue(txt, i) ==
    IF i > Len(txt) THEN ParseFail
    ELSE IF txt[i] = LB THEN
        LET j == SkipWs(txt, i + 1)
        IN  IF j <= Len(txt) /\ txt[j] = RB THEN ParseOk(JObj(EmptyObj), j + 1)
            ELSE ParseMemberList(txt, j, EmptyObj)
    ELSE IF txt[i] = LBR THEN
        LET j == SkipWs(txt, i + 1)
        IN  IF j <= Len(txt) /\ txt[j] = RBR THEN ParseOk(JArr(<<>>), j + 1)
            ELSE ParseElemList(txt, j, <<>>)
    ELSE IF txt[i] = QUOTE THEN
        LET ends == {j \in (i + 1)..Len(txt) : txt[j] = QUOTE}
        IN  IF ends = {} THEN ParseFail
            ELSE LET j == CHOOSE x \in ends : \A y \in ends : x <= y
                 IN  ParseOk(JStr(SubSeq(txt, i + 1, j - 1)), j + 1)
    ELSE IF IsNum(txt[i]) THEN ParseOk(JNum(NumValue(txt[i])), i + 1)
    ELSE IF IsFrac(txt[i]) THEN ParseOk(JFrac(FracValue(txt[i])), i + 1)
    ELSE ParseFail

ParseMemberList(txt, i, acc) ==
    IF i > Len(txt) \/ txt[i] \notin KeyTokens THEN ParseFail
    ELSE LET r == ParseValue(txt, SkipWs(txt, i + 1))
         IN  IF ~r.ok THEN ParseFail
             ELSE LET k == SkipWs(txt, r.next)
                      acc2 == [x \in DOMAIN acc \cup {txt[i]} |->
                                  IF x = txt[i] THEN r.val ELSE acc[x]]
                  IN  IF k > Len(txt) THEN ParseFail
                      ELSE IF txt[k] = RB THEN ParseOk(JObj(acc2), k + 1)
                      ELSE IF txt[k] = COMMA
                      THEN ParseMemberList(txt, SkipWs(txt, k + 1), acc2)
                      ELSE ParseFail

ParseElemList(txt, i, acc) ==
    LET r == ParseValue(txt, i)
    IN  IF ~r.ok THEN ParseFail
        ELSE LET k == SkipWs(txt, r.next)
             IN  IF k > Len(txt) THEN ParseFail
                 ELSE IF txt[k] = RBR THEN ParseOk(JArr(Append(acc, r.val)), k + 1)
                 ELSE IF txt[k] = COMMA
                 THEN ParseElemList(txt, SkipWs(txt, k + 1), Append(acc, r.val))
                 ELSE ParseFail

\* JSON.parse(txt): [ok, val]; ok = FALSE stands for the SyntaxError
JSONparse(txt) ==
    LET r == ParseValue(txt, SkipWs(txt, 1))
    IN  IF r.ok /\ SkipWs(txt, r.next) = Len(txt) + 1
        THEN [ok |-> TRUE, val |-> r.val]
        ELSE [ok |-> FALSE, val |-> NoValue]

-----------------------------------------------------------------------------
(* utils.ts: parseReviewResponse *)

\* the match of /FENCE(?:json)?\s*(\{[\s\S]*\})\s*FENCE/ that starts at fence i:
\* the end index of group 1 (greedy: the last closing brace that white space
\* and a fence follow), 0 without a match; group 1 starts at GroupStart
GroupStart(txt, i) ==
    SkipWs(txt, IF i + 1 <= Len(txt) /\ txt[i + 1] = JTAG THEN i + 2 ELSE i + 1)

GroupEnd(txt, i) ==
    LET p == GroupStart(txt, i)
        ends == {q \in (p + 1)..Len(txt) :
                    /\ txt[q] = RB
                    /\ SkipWs(txt, q + 1) <= Len(txt)
                    /\ txt[SkipWs(txt, q + 1)] = FENCE}
    IN  IF txt[i] = FENCE /\ p <= Len(txt) /\ txt[p] = LB /\ ends # {}
        THEN CHOOSE q \in ends : \A y \in ends : y <= q
        ELSE 0

\* response.match(...): the leftmost start that matches
jsonMatch(txt) ==
    LET starts == {i \in 1..Len(txt) : GroupEnd(txt, i) > 0}
    IN  IF starts = {} THEN [found |-> FALSE, group |-> <<>>]
        ELSE LET i == CHOOSE x \in starts : \A y \in starts : x <= y
             IN  [found |-> TRUE, group |-> SubSeq(txt, GroupStart(txt, i), GroupEnd(txt, i))]

\* [ok, val]: ok = FALSE stands for the thrown
\* Error("Failed to parse review response as JSON: ...")
parseReviewResponse(response) ==
    LET m == jsonMatch(response)
        jsonString == IF m.found THEN m.group ELSE trim(response)
    IN  JSONparse(jsonString)

-----------------------------------------------------------------------------
(* types.ts: ReviewCodeOutputSchema (zod) *)

MetricMin == 1
MetricMax == 5
MetricKeys == <<"errorHandling:", "performance:", "security:", "maintainability:">>
Severities == {<<"critical">>, <<"major">>, <<"minor">>}
StrategyNames == {"adversarial", "bias_aware", "hybrid"}

HasStr(o, k) == k \in DOMAIN o /\ o[k].t = "str"

\* variant: z.number().min(1), no upper bound
MetricOk_NoMax(x) == x.t = "num" /\ NumAtLeast(x, MetricMin)

\* z.number().min(1).max(5)
MetricOk(x) == x.t = "num" /\ NumAtLeast(x, MetricMin) /\ NumAtMost(x, MetricMax)

\* ReviewMetricsSchema
MetricsOk(x) ==
    /\ x.t = "obj"
    /\ \A i \in 1..Len(MetricKeys) :
           MetricKeys[i] \in DOMAIN x.v /\ MetricOk(x.v[MetricKeys[i]])

\* ReviewIssueSchema
IssueOk(x) ==
    /\ x.t = "obj"
    /\ HasStr(x.v, "severity:") /\ x.v["severity:"].v \in Severities
    /\ HasStr(x.v, "description:")
    /\ HasStr(x.v, "suggestion:")

\* biasTriggersFound: z.array(z.string()).optional()
BiasTriggersOk(o) ==
    "biasTriggersFound:" \in DOMAIN o =>
        /\ o["biasTriggersFound:"].t = "arr"
        /\ \A i \in 1..Len(o["biasTriggersFound:"].v) : o["biasTriggersFound:"].v[i].t = "str"

\* the members the schema of a revision declares: withStrategy = the
\* strategy-aware revision (reviewStrategy, biasTriggersFound)
SchemaKeys(withStrategy) ==
    {"reviewModel:", "summary:", "issues:", "metrics:", "alternative:"}
    \cup (IF withStrategy THEN {"reviewStrategy:", "biasTriggersFound:"} ELSE {})

\* does ReviewCodeOutputSchema.parse(o) succeed
SchemaAccepts(withStrategy, o) ==
    /\ HasStr(o, "reviewModel:")
    /\ HasStr(o, "summary:")
    /\ "issues:" \in DOMAIN o /\ o["issues:"].t = "arr"
    /\ \A i \in 1..Len(o["issues:"].v) : IssueOk(o["issues:"].v[i])
    /\ "metrics:" \in DOMAIN o /\ MetricsOk(o["metrics:"])
    /\ HasStr(o, "alternative:")
    /\ withStrategy =>
          /\ HasStr(o, "reviewStrategy:")
          /\ \E n \in StrategyNames : o["reviewStrategy:"].v = <<n>>
          /\ BiasTriggersOk(o)

\* z.object strips the members it does not declare
Strip(keys, o) == [k \in DOMAIN o \cap keys |-> o[k]]

StripNested(x) ==
    IF x.t = "obj" /\ "errorHandling:" \in DOMAIN x.v
    THEN JObj(Strip({MetricKeys[i] : i \in 1..Len(MetricKeys)}, x.v))
    ELSE IF x.t = "arr"
    THEN JArr([i \in 1..Len(x.v) |->
                 IF x.v[i].t = "obj"
                 THEN JObj(Strip({"severity:", "description:", "suggestion:"}, x.v[i].v))
                 ELSE x.v[i]])
    ELSE x

\* ReviewCodeOutputSchema.parse(o): [ok, val]; ok = FALSE is the ZodError
SchemaParse(withStrategy, o) ==
    IF SchemaAccepts(withStrategy, o)
    THEN [ok |-> TRUE,
          val |-> JObj([k \in DOMAIN o \cap SchemaKeys(withStrategy) |-> StripNested(o[k])])]
    ELSE [ok |-> FALSE, val |-> NoValue]

\* { ...base, ...reviewData }: the members of the parsed response override
\* the handler's own; a parsed value that is no object spreads to nothing
\* the schema reads
Spread(base, reviewData) ==
    IF reviewData.t = "obj"
    THEN [k \in DOMAIN base \cup DOMAIN reviewData.v |->
             IF k \in DOMAIN reviewData.v THEN reviewData.v[k] ELSE base[k]]
    ELSE base

-----------------------------------------------------------------------------
(* server.ts: the review tool handlers of the revisions under src/           *)
(*   review_code, review_commit, review_pr : src/src/server.ts              *)
(*   review_code_strategy                  : src/unnamed/part_003           *)
(*   review_code_markdown                  : src/unnamed/part_004           *)

GitHandlers == {"review_code", "review_commit", "review_pr"}
FallbackHandlers == {"review_code_strategy", "review_code_markdown"}
Handlers == GitHandlers \cup FallbackHandlers

\* handlers that parse and validate the reviewer's text
ParsingHandlers == GitHandlers \cup {"review_code_strategy"}

Absent == [given |-> FALSE, value |-> <<>>]
Given(x) == [given |-> TRUE, value |-> x]

ErrFetchCommit == "Failed to fetch commit"
ErrFetchPR     == "Failed to fetch PR commits"
ErrSampling    == "sampling request failed"
ErrParse       == "Failed to parse review response as JSON"
ErrValidation  == "ZodError"

Sunknown == <<"u","n","k","n","o","w","n">>

\* reviewStrategy as the handler uses it: part_004 defaults to bias_aware
StrategyOf(h, a) ==
    IF h = "review_code_strategy" THEN a.strategy.value
    ELSE IF h = "review_code_markdown"
    THEN (IF a.strategy.given THEN a.strategy.value ELSE "bias_aware")
    ELSE "none"

\* getReviewerPrompt / createCriticalReviewerPrompt: the system prompt, by name
getReviewerPrompt(h, strategy) ==
    IF h = "review_code_strategy"
    THEN (IF strategy = "adversarial" THEN "ADVERSARIAL_REVIEWER_PROMPT"
          ELSE IF strategy = "bias_aware" THEN "BIAS_AWARE_REVIEWER_PROMPT"
          ELSE "HYBRID_REVIEWER_PROMPT")
    ELSE IF h = "review_code_markdown"
    THEN (IF strategy = "adversarial" THEN "prompts.adversarial"
          ELSE IF strategy = "bias_aware" THEN "prompts.biasAware"
          ELSE "undefined")
    ELSE "createCriticalReviewerPrompt"

\* createCriticalReviewerPrompt(reviewType): basePrompt, the guidance of the
\* review type, outputFormat, as the sequence of its parts
ReviewTypes == {"security", "performance", "maintainability", "general"}
typeSpecificGuidance ==
    [security        |-> "typeSpecificGuidance.security",
     performance     |-> "typeSpecificGuidance.performance",
     maintainability |-> "typeSpecificGuidance.maintainability",
     general         |-> "typeSpecificGuidance.general"]
createCriticalReviewerPrompt(reviewType) ==
    <<"basePrompt", typeSpecificGuidance[reviewType], "outputFormat">>

\* reviewType as requestSampling receives it: the handlers default it to
\* general; review_code of server.ts does not pass it (parameter default)
ReviewTypeOf(h, a) ==
    IF h = "review_code" THEN "general"
    ELSE IF a.reviewType.given THEN a.reviewType.value ELSE "general"

\* the systemPrompt member of the request: the strategy-aware revisions take
\* it from getReviewerPrompt(reviewStrategy) alone
SystemPrompt(h, strategy, reviewType) ==
    IF h \in GitHandlers THEN createCriticalReviewerPrompt(reviewType)
    ELSE <<getReviewerPrompt(h, strategy)>>

\* { ...preferences, hints, metadata: { ...preferences.metadata,
\* reviewStrategy } }: the strategy-aware revisions add reviewStrategy to the
\* metadata, server.ts spreads the preferences and adds the hints only
MergePreferences(h, preferences, fallbackHints, strategy) ==
    [metadata |-> IF h \in GitHandlers THEN preferences
                  ELSE [k \in DOMAIN preferences \cup {"reviewStrategy"} |->
                           IF k = "reviewStrategy" THEN strategy ELSE preferences[k]],
     hints |-> fallbackHints]

\* an optional argument of the call: a key the caller left out reads as
\* undefined
ArgOr(a, f) == IF f \in DOMAIN a THEN a[f] ELSE Absent
TextArg(a, f) == IF ArgOr(a, f).given THEN ArgOr(a, f).value ELSE <<>>
CodeOf(a) == IF "code" \in DOMAIN a THEN <<a.code>> ELSE <<XCH>>

\* language ? fence language \n code \n fence : fence \n code \n fence
codeBlock(language, code) ==
    IF Truthy(language) THEN <<FENCE>> \o language \o <<LF>> \o code \o <<LF, FENCE>>
    ELSE <<FENCE, LF>> \o code \o <<LF, FENCE>>
contextText(context) ==
    IF Truthy(context) THEN <<LF, LF, "Context: ">> \o context ELSE <<>>

\* the user message of the sampling request
promptText(language, context, code) ==
    <<"Review this ">> \o (IF Truthy(language) THEN language ELSE <<"code">>)
        \o <<" and identify potential issues:">> \o contextText(context)
        \o <<LF, LF>> \o codeBlock(language, code)

\* variant: the prompt of the catch block leaves the context out
reviewPrompt_NoContext(systemPrompt, language, context, code) ==
    <<systemPrompt, LF, LF, "Review this ">>
        \o (IF Truthy(language) THEN language ELSE <<"code">>)
        \o <<" and identify potential issues:">>
        \o <<LF, LF>> \o codeBlock(language, code)

\* the prompt the catch block renders again for the manual review
reviewPrompt(systemPrompt, language, context, code) ==
    <<systemPrompt, LF, LF, "Review this ">>
        \o (IF Truthy(language) THEN language ELSE <<"code">>)
        \o <<" and identify potential issues:">> \o contextText(context)
        \o <<LF, LF>> \o codeBlock(language, code)

\* requestSampling: the sampling/createMessage request
SamplingRequest(h, g, strategy, reviewType, userMessage) ==
    LET modelPreferences ==
            MergePreferences(h, createModelPreferences(g), createFallbackHints(g), strategy)
    IN  [systemPrompt |-> SystemPrompt(h, strategy, reviewType),
         metadata     |-> modelPreferences.metadata,
         strategy     |-> strategy,
         hints        |-> modelPreferences.hints,
         userMessage  |-> userMessage]

\* a result the handler returns
Outcome(kind, err, g, hints, prompt, review, body, strategy) ==
    [kind |-> kind, isError |-> (kind = "error"), samplingFailed |-> (kind = "fallback"),
     error |-> err, generationModel |-> g, recommendedModels |-> hints,
     manualPrompt |-> prompt, review |-> review, text |-> body, strategy |-> strategy]

\* the catch block of the handler
OnError(h, a, g, err) ==
    IF h \in FallbackHandlers
    THEN Outcome("fallback", err, a.generationModel.value,
                 createFallbackHints(a.generationModel.value),
                 reviewPrompt(getReviewerPrompt(h, StrategyOf(h, a)), TextArg(a, "language"),
                              TextArg(a, "context"), CodeOf(a)),
                 NoValue, <<>>, StrategyOf(h, a))
    ELSE Outcome("error", err, <<>>, <<>>, <<>>, NoValue, <<>>, "none")

\* variant: the catch block goes back to the sampling request
CatchNextPc_Retry(h) == IF h \in FallbackHandlers THEN "start" ELSE "resolved"

\* where the handler stands after its catch block: it returns
CatchNextPc(h) == "done"

\* what ReviewCodeOutputSchema.parse receives
SchemaInput(h, a, reply, reviewData) ==
    LET model == JStr(IF Truthy(reply.model) THEN reply.model ELSE Sunknown)
        base  == IF h = "review_code_strategy"
                 THEN [k \in {"reviewModel:", "reviewStrategy:"} |->
                          IF k = "reviewModel:" THEN model ELSE JStr(<<a.strategy.value>>)]
                 ELSE [k \in {"reviewModel:"} |-> model]
    IN  Spread(base, reviewData)

\* the try block after the sampling result arrived
OnReply(h, a, g, reply) ==
    IF h = "review_code_markdown"
    THEN Outcome("review", "", g, <<>>, <<>>, NoValue, reply.text, StrategyOf(h, a))
    ELSE LET reviewData == parseReviewResponse(reply.text)
             validated  == SchemaParse(h = "review_code_strategy",
                                       SchemaInput(h, a, reply, reviewData.val))
         IN  IF ~reviewData.ok THEN OnError(h, a, g, ErrParse)
             ELSE IF ~validated.ok THEN OnError(h, a, g, ErrValidation)
             ELSE Outcome("review", "", g, <<>>, "", validated.val, <<>>, StrategyOf(h, a))

-----------------------------------------------------------------------------
(* Identifiers the behaviours draw from *)

\* identifiers as callers and commit metadata give them
SampleIds ==
    {
      <<"g","p","t","-","4">>,
      <<"G","P","T","-","4">>,
      <<"g","p","t","-","4","o">>,
      <<"c","l","a","u","d","e","-","3","-","o","p","u","s">>,
      <<"C","l","a","u","d","e","-","3">>,
      <<"c","l","a","u","d","e","-","i","n","s","t","a","n","t">>,
      <<"g","e","m","i","n","i","-","p","r","o">>,
      <<"c","l","a","u","d","e","-","g","p","t">>,
      <<"g","e","m","i","n","i","-","c","l","a","u","d","e">>,
      <<"o","p","e","n","a","i","/","o","1">>,
      <<"O","p","e","n","A","I","/","o","3">>,
      <<"g","i","t","h","u","b","-","c","o","p","i","l","o","t">>,
      <<"l","l","a","m","a","-","3">>,
      <<"o","1">>,
      <<"O","1">>,
      <<>>,
      <<" ">>,
      <<"m","i","s","t","r","a","l","-","7","b">>,
      <<"p","h","i","-","3">>,
      <<"g","p","t","-","o","p","e","n","a","i">>,
      <<"c","l","a","u","d","e","-","o","p","e","n","a","i">>,
      <<"a","n","t","h","r","o","p","i","c","/","c","3">>,
      <<" "," ">> }

\* every string over IdAlphabet of length at most MaxIdLen
MaxIdLen == 2
IdAlphabet == {"o", "O", "1"}
ShortIds == UNION {[1..n -> IdAlphabet] : n \in 0..MaxIdLen}

ModelIds == SampleIds \cup ShortIds

-----------------------------------------------------------------------------
(* Idle values of the parts a behaviour does not exercise *)

NoAnswer    == [done |-> FALSE, overlap |-> FALSE, exclude |-> FALSE]
MatcherIdle == m1 = <<>> /\ m2 = <<>> /\ ovl = NoAnswer
NoArgs      == [generationModel |-> [given |-> FALSE, value |-> <<>>],
                hasPR |-> FALSE, hasCommit |-> FALSE,
                strategy |-> [given |-> FALSE, value |-> <<>>],
                reviewType |-> [given |-> FALSE, value |-> <<>>]]
NoReply     == [model |-> <<>>, text |-> <<>>]
NoIO        == [ownFetch |-> "none", prFetch |-> "none", commitFetch |-> "none",
                prAnswer |-> [ok |-> FALSE, commits |-> <<>>],
                commitAnswer |-> [ok |-> FALSE, commits |-> <<>>],
                sampling |-> "none", reply |-> NoReply]
ReviewIdle  == /\ handler = "none" /\ args = NoArgs /\ env = NoIO /\ pc = "idle"
               /\ genModel = <<>> /\ requests = <<>> /\ outcomes = <<>>
NoResult    == [ok |-> FALSE, val |-> NoValue]
NoParse     == [done |-> FALSE, plain |-> NoResult, wrapped |-> NoResult]
ParserIdle  == content = <<>> /\ text = <<>> /\ parsed = NoParse
NoDetection == [raised |-> FALSE, model |-> <<>>]
NoDetected  == [done |-> FALSE, current |-> NoDetection, earlier |-> NoDetection]
DetectIdle  == coAuthors = <<>> /\ detected = NoDetected
NoPrompts   == [loaded |-> FALSE, adversarial |-> "", biasAware |-> "", instructions |-> ""]
ConcurrentIdle == calls = <<>> /\ cachedPrompts = NoPrompts
NoData      == [failed |-> FALSE, name |-> <<>>, email |-> <<>>, login |-> <<>>, message |-> <<>>]
NoCommit    == [done |-> FALSE, ok |-> FALSE, authors |-> <<>>, model |-> <<>>]
CommitIdle  == data = NoData /\ fetched = NoCommit
NoResource  == [done |-> FALSE, ok |-> FALSE, reviewType |-> <<>>]
ResourceIdle == uri = <<>> /\ resource = NoResource

-----------------------------------------------------------------------------
(* The family matcher applied to a pair of identifiers *)

InitMatcher ==
    /\ mode = "matcher"
    /\ CommitIdle
    /\ ResourceIdle
    /\ m1 \in ModelIds
    /\ m2 \in ModelIds
    /\ ovl = NoAnswer
    /\ ReviewIdle
    /\ ParserIdle
    /\ DetectIdle
    /\ ConcurrentIdle

\* a caller evaluates hasModelOverlap and shouldExcludeModel on the pair
Match ==
    /\ mode = "matcher"
    /\ ~ovl.done
    /\ ovl' = [done |-> TRUE,
               overlap |-> hasModelOverlap(m1, m2),
               exclude |-> shouldExcludeModel(m1, m2)]
    /\ UNCHANGED <<mode, m1, m2, reviewVars, parserVars, detectVars, concurrentVars, commitVars, resourceVars>>

NextMatcher == Match

SpecMatcher == InitMatcher /\ [][NextMatcher]_vars

-----------------------------------------------------------------------------
(* C1: every identifier overlaps itself, and any two identifiers that are   *)
(* equal when letter case is ignored overlap, for hasModelOverlap and for   *)
(* shouldExcludeModel built on it.                                          *)
C1_SelfOverlap ==
    (ovl.done /\ toLowerCase(m1) = toLowerCase(m2))
        => (ovl.overlap /\ ovl.exclude)

\* the base names an identifier begins with, whatever its letter case
KnownPrefixes(s) == {k \in 1..Len(BaseNames) : MatchesAt(toLowerCase(s), BaseNames[k], 1)}
\* the provider words an identifier contains anywhere
ProviderWords(s) == {k \in 1..Len(Providers) : includes(toLowerCase(s), Providers[k])}
\* the stretches of MinRun or more letters an identifier contains
LetterStretches(s) ==
    LET low == toLowerCase(s)
    IN  {SubSeq(low, p[1], p[2]) : p \in
            {q \in (1..Len(s)) \X (1..Len(s)) :
                /\ q[2] - q[1] + 1 >= MinRun
                /\ \A k \in q[1]..q[2] : IsLowerAlpha(low[k])}}
IsBlank(s) == \A i \in 1..Len(s) : s[i] = " "

\* C12: when both identifiers begin with a known base name, hasModelOverlap
\* is true if and only if the two base names are equal; a mismatch gives
\* false even when both hold the same provider word or a common run of
\* four or more letters.
C12_BaseNameDecides ==
    (ovl.done /\ KnownPrefixes(m1) # {} /\ KnownPrefixes(m2) # {}) =>
        (ovl.overlap <=> KnownPrefixes(m1) = KnownPrefixes(m2))
C12_Witness ==
    /\ ovl.done
    /\ KnownPrefixes(m1) # {} /\ KnownPrefixes(m2) # {}
    /\ KnownPrefixes(m1) # KnownPrefixes(m2)
    /\ ProviderWords(m1) \cap ProviderWords(m2) # {}
    /\ LetterStretches(m1) \cap LetterStretches(m2) # {}
    /\ ~ovl.overlap

\* C13: hasModelOverlap is true only with evidence: an equal base-name
\* prefix, an equal provider word, or a common run of four or more letters;
\* identifiers with none of the three do not overlap.
Evidence ==
    \/ KnownPrefixes(m1) \cap KnownPrefixes(m2) # {}
    \/ ProviderWords(m1) \cap ProviderWords(m2) # {}
    \/ LetterStretches(m1) \cap LetterStretches(m2) # {}
C13_OverlapNeedsEvidence ==
    ovl.done => (ovl.overlap => Evidence) /\ (~Evidence => ~ovl.overlap)
C13_Witness ==
    /\ ovl.done
    /\ ProviderWords(m1) # {} /\ ProviderWords(m2) # {}
    /\ ~Evidence
    /\ ~ovl.overlap

\* C14: an identifier that is empty or holds only white space overlaps no
\* identifier: nothing of length zero counts as a match.
C14_BlankNeverOverlaps ==
    (ovl.done /\ (IsBlank(m1) \/ IsBlank(m2))) => ~ovl.overlap
C14_Witness ==
    /\ ovl.done
    /\ m1 = <<>> /\ IsBlank(m2) /\ Len(m2) > 0
    /\ ~ovl.overlap

-----------------------------------------------------------------------------
(* detectModelFromCoAuthors applied to an authors list *)

AuthorNames  == {<<>>, <<"A","n","n">>, <<"C","l","a","u","d","e">>, <<"C","o","p","i","l","o","t">>}
AuthorEmails == {<<>>, <<"a","@","g","i","t","h","u","b",".","c","o","m">>, <<"x","@","o","p","e","n","a","i",".","c","o","m">>,
                 <<"b","@","g","o","o","g","l","e",".","c","o","m">>}
AuthorLogins == {<<>>, <<"c","o","p","i","l","o","t","-","b","o","t">>}

\* authors with every subset of name / email / login present; a field is
\* absent (not in has) or holds a non-empty text
AuthorPool ==
    {Author({f \in {"name", "email", "login"} :
                \/ f = "name" /\ n # <<>>
                \/ f = "email" /\ e # <<>>
                \/ f = "login" /\ l # <<>>}, n, e, l) :
        n \in AuthorNames, e \in AuthorEmails, l \in AuthorLogins}

MaxAuthors == 2
AuthorLists == UNION {[1..n -> AuthorPool] : n \in 0..MaxAuthors}

InitDetect ==
    /\ mode = "detect"
    /\ CommitIdle
    /\ ResourceIdle
    /\ coAuthors \in AuthorLists
    /\ detected = NoDetected
    /\ MatcherIdle
    /\ ReviewIdle
    /\ ParserIdle
    /\ ConcurrentIdle

\* a caller (the detect_model_from_authors tool, detectGenerationModel)
\* evaluates the detector of each revision on the list
DetectAuthors ==
    /\ mode = "detect"
    /\ ~detected.done
    /\ detected' = [done |-> TRUE,
                    current |-> [raised |-> FALSE,
                                 model |-> detectModelFromCoAuthors(coAuthors)],
                    earlier |-> detectModelFromCoAuthorsEarlier(coAuthors)]
    /\ UNCHANGED <<mode, coAuthors, matcherVars, reviewVars, parserVars, concurrentVars, commitVars, resourceVars>>

NextDetect == DetectAuthors

SpecDetect == InitDetect /\ [][NextDetect]_vars

\* C15: detectModelFromCoAuthors never raises: for the empty list, for an
\* author with no fields and for any author lacking some of name / email /
\* login it returns a value, null when nothing matches.
C15_DetectionNeverRaises ==
    detected.done => (~detected.current.raised /\ ~detected.earlier.raised)

\* C16: detectModelFromCoAuthors returns the model of the first author in
\* list order that matches a signature; later authors are not consulted and
\* signals of different authors are never combined.
Matching == {i \in 1..Len(coAuthors) : AuthorModel(coAuthors[i]) # <<>>}
C16_FirstAuthorWins ==
    detected.done =>
        IF Matching = {} THEN detected.current.model = <<>>
        ELSE \E i \in Matching :
                /\ \A j \in Matching : i <= j
                /\ detected.current.model = AuthorModel(coAuthors[i])
C16_Witness ==
    /\ detected.done
    /\ Len(coAuthors) = 2
    /\ AuthorModel(coAuthors[1]) # <<>>
    /\ AuthorModel(coAuthors[2]) # <<>>
    /\ AuthorModel(coAuthors[1]) # AuthorModel(coAuthors[2])
    /\ detected.current.model = AuthorModel(coAuthors[1])

-----------------------------------------------------------------------------
(* parseReviewResponse applied to a structured content, alone and fenced *)

\* a JSON string, and a JSON object from <<key token, value tokens>> pairs
StrTokens(cs) == <<QUOTE>> \o cs \o <<QUOTE>>

RECURSIVE MemberTokens(_)
MemberTokens(members) ==
    IF members = <<>> THEN <<>>
    ELSE <<members[1][1]>> \o members[1][2]
         \o (IF Len(members) > 1 THEN <<COMMA>> ELSE <<>>)
         \o MemberTokens(Tail(members))

ObjTokens(members) == <<LB>> \o MemberTokens(members) \o <<RB>>

\* characters a string field of a review can hold: a review of code quotes
\* code, so fences and braces occur in summary, description and alternative
MaxStrLen == 4
StrAlphabet == {FENCE, LB, RB, WS, XCH}
StrContents == UNION {[1..n -> StrAlphabet] : n \in 0..MaxStrLen}

\* the structured contents: {} and {"summary": "<cs>"}
Contents == {ObjTokens(<<>>)}
            \cup {ObjTokens(<< <<"summary:", StrTokens(cs)>> >>) : cs \in StrContents}

\* prose around the fenced block
Proses == {<<>>, <<XCH>>, <<XCH, WS>>}

\* c wrapped in a fenced block
Fenced(c, tagged, wsIn, wsOut, before, after) ==
    before \o <<FENCE>> \o (IF tagged THEN <<JTAG>> ELSE <<>>)
    \o (IF wsIn THEN <<WS>> ELSE <<>>) \o c \o (IF wsOut THEN <<WS>> ELSE <<>>)
    \o <<FENCE>> \o after

InitParser ==
    /\ mode = "parser"
    /\ CommitIdle
    /\ ResourceIdle
    /\ content \in Contents
    /\ text = <<>>
    /\ parsed = NoParse
    /\ MatcherIdle
    /\ ReviewIdle
    /\ DetectIdle
    /\ ConcurrentIdle

\* the reviewer answers with c in a fenced block; the response is interpreted,
\* and so is c alone
Interpret ==
    /\ mode = "parser"
    /\ ~parsed.done
    /\ \E tagged \in BOOLEAN, wsIn \in BOOLEAN, wsOut \in BOOLEAN,
          before \in Proses, after \in Proses :
          text' = Fenced(content, tagged, wsIn, wsOut, before, after)
    /\ parsed' = [done |-> TRUE,
                  plain |-> parseReviewResponse(content),
                  wrapped |-> parseReviewResponse(text')]
    /\ UNCHANGED <<mode, content, matcherVars, reviewVars, detectVars, concurrentVars, commitVars, resourceVars>>

NextParser == Interpret

SpecParser == InitParser /\ [][NextParser]_vars

(* C10: for every JSON object c, parseReviewResponse of c in a fenced block  *)
(* (tagged json or not, with or without surrounding prose) and of c alone   *)
(* give the same parsed value, also when a string field of c holds a fenced *)
(* code block.                                                              *)
C10_FenceIdempotent ==
    parsed.done => parsed.plain = parsed.wrapped

-----------------------------------------------------------------------------
(* One review tool call, from its arrival to its result *)

\* generationModel values of the calls
CallIds == { <<"g","p","t","-","4">>,
             <<"c","l","a","u","d","e","-","g","p","t">>,
             <<"g","e","m","i","n","i","-","p","r","o">>,
             <<"o","1">>,
             <<"G","P","T","-","4">>,
             <<>> }

\* commit authors as the gh CLI reports them
Human      == Author({"name", "email", "login"}, <<"A","n","n">>, <<"a","@","x",".","i","o">>, <<"a","n","n">>)
ClaudeBot  == Author({"name", "email"}, <<"C","l","a","u","d","e">>, <<"n","o","r","e","p","l","y","@","a","n","t","h","r","o","p","i","c",".","c","o","m">>, <<>>)
GptBot     == Author({"name", "login"}, <<"C","h","a","t","G","P","T">>, <<>>, <<"g","p","t">>)

\* answers of fetchCommit (one commit) and of fetchPRCommits
CommitAnswers == {GhFailed, GhCommits(<< <<Human>> >>), GhCommits(<< <<Human, ClaudeBot>> >>)}
PRAnswers == {GhFailed, GhCommits(<<>>), GhCommits(<< <<Human>> >>),
              GhCommits(<< <<Human>>, <<GptBot>>, <<ClaudeBot>> >>)}

\* arguments a caller sends to each handler
ArgsOf(h) ==
    LET types == {Absent} \cup {Given(t) : t \in ReviewTypes}
    IN
    IF h = "review_code"
    THEN {[generationModel |-> gm, hasPR |-> p, hasCommit |-> c, strategy |-> Absent,
           reviewType |-> Absent] :
             gm \in {Absent} \cup {Given(x) : x \in CallIds}, p \in BOOLEAN, c \in BOOLEAN}
    ELSE IF h \in {"review_commit", "review_pr"}
    THEN {[generationModel |-> gm, hasPR |-> (h = "review_pr"),
           hasCommit |-> (h = "review_commit"), strategy |-> Absent, reviewType |-> rt] :
             gm \in {Absent} \cup {Given(x) : x \in CallIds}, rt \in types}
    ELSE IF h = "review_code_strategy"
    THEN {[generationModel |-> Given(x), hasPR |-> FALSE, hasCommit |-> FALSE,
           strategy |-> Given(st), reviewType |-> rt] :
             x \in CallIds, st \in StrategyNames, rt \in types}
    ELSE {[generationModel |-> Given(x), hasPR |-> FALSE, hasCommit |-> FALSE,
           strategy |-> st, reviewType |-> rt] :
             x \in CallIds, st \in {Absent} \cup {Given(n) : n \in StrategyNames},
             rt \in types}

\* the review a reviewer writes, as JSON text
NumStr(n) == <<NumToken(n)>>
MetricsTokens(ms) ==
    ObjTokens([i \in 1..Len(MetricKeys) |-> <<MetricKeys[i], NumStr(ms[i])>>])
IssueTokens ==
    ObjTokens(<< <<"severity:", StrTokens(<<"major">>)>>,
                 <<"description:", StrTokens(<<XCH>>)>>,
                 <<"suggestion:", StrTokens(<<XCH>>)>> >>)
ReviewMembers(metrics, withSummary, withBias) ==
    (IF withSummary THEN << <<"summary:", StrTokens(<<XCH>>)>> >> ELSE <<>>)
    \o << <<"issues:", <<LBR>> \o IssueTokens \o <<RBR>> >>,
          <<"metrics:", metrics>>,
          <<"alternative:", StrTokens(<<XCH>>)>> >>
    \o (IF withBias
        THEN << <<"biasTriggersFound:", <<LBR>> \o StrTokens(<<XCH>>) \o <<RBR>> >> >>
        ELSE <<>>)
ReviewTokens(ms, withSummary, withBias) ==
    ObjTokens(ReviewMembers(MetricsTokens(ms), withSummary, withBias))

\* metrics of a response: one metric takes any value of the number tokens
\* up to MaxMetricValue, the others are in range
MaxMetricValue == 6
MidMetric == 3
MetricVectors ==
    {[i \in 1..Len(MetricKeys) |-> IF i = k THEN n ELSE MidMetric] :
        k \in 1..Len(MetricKeys), n \in 0..MaxMetricValue}

\* reviewer texts: reviews (alone or fenced), a review without summary,
\* text that is no JSON, and the empty text
MidMetrics == [i \in 1..Len(MetricKeys) |-> MidMetric]
\* reviews that also state the members the handler fills in itself
OwnFieldTexts ==
    {ObjTokens(ReviewMembers(MetricsTokens(MidMetrics), TRUE, TRUE) \o << m >>) :
        m \in { <<"reviewModel:", StrTokens(<<XCH>>)>>,
                <<"reviewStrategy:", StrTokens(<<"adversarial">>)>>,
                <<"reviewStrategy:", StrTokens(<<"hybrid">>)>> }}
\* reviews in which one metric is a number with a fraction
FractionMetrics(tok) ==
    ObjTokens([i \in 1..Len(MetricKeys) |->
                  <<MetricKeys[i], IF i = 1 THEN <<tok>> ELSE NumStr(MidMetric)>>])
FractionTexts ==
    {ObjTokens(ReviewMembers(FractionMetrics(FracTokens[n]), TRUE, TRUE)) :
        n \in 1..Len(FracTokens)}
ReviewTexts ==
    {ReviewTokens(ms, TRUE, TRUE) : ms \in MetricVectors}
    \cup {Fenced(ReviewTokens(ms, TRUE, TRUE), TRUE, TRUE, TRUE, <<XCH>>, <<>>) :
             ms \in MetricVectors}
    \cup {ReviewTokens(MidMetrics, TRUE, FALSE),
          Fenced(ReviewTokens(MidMetrics, TRUE, FALSE), TRUE, TRUE, TRUE, <<XCH>>, <<>>),
          ReviewTokens(MidMetrics, FALSE, TRUE),
          <<XCH, XCH>>, <<>>}
    \cup OwnFieldTexts \cup FractionTexts

\* the metrics a reviewer text of ReviewTexts states (none for the texts that
\* are no complete review)
MetricsStated ==
    [txt \in ReviewTexts |->
        {ms \in MetricVectors :
            \E b \in BOOLEAN :
                txt \in {ReviewTokens(ms, TRUE, b),
                         Fenced(ReviewTokens(ms, TRUE, b), TRUE, TRUE, TRUE, <<XCH>>, <<>>)}}]

\* results of the sampling request: the model the client used and its text
Replies == {[model |-> m, text |-> txt] :
               m \in {<<"g","e","m","i","n","i","-","p","r","o">>, <<>>}, txt \in ReviewTexts}

InitReview ==
    /\ mode = "review"
    /\ CommitIdle
    /\ ResourceIdle
    /\ handler \in Handlers
    /\ args \in ArgsOf(handler)
    /\ env = NoIO
    /\ pc = "start"
    /\ genModel = <<>>
    /\ requests = <<>>
    /\ outcomes = <<>>
    /\ MatcherIdle
    /\ ParserIdle
    /\ DetectIdle
    /\ ConcurrentIdle

Return(o) ==
    /\ outcomes' = Append(outcomes, o)
    /\ pc' = "done"

\* ReviewCodeInputSchema.parse(args): the strategy-aware schema declares
\* generationModel and reviewStrategy without .optional(); the schemas of the
\* git handlers declare generationModel optional
InputAccepts(h, a) ==
    h \in FallbackHandlers =>
        /\ a.generationModel.given
        /\ a.strategy.given /\ a.strategy.value \in StrategyNames

ErrInput == "ZodError: invalid arguments"

\* the parse of the arguments throws before the try block: the call ends
\* with the thrown error, no tool result is built
RejectArgs ==
    /\ mode = "review"
    /\ pc = "start"
    /\ ~InputAccepts(handler, args)
    /\ Return(Outcome("thrown", ErrInput, <<>>, <<>>, <<>>, NoValue, <<>>, "none"))
    /\ UNCHANGED <<mode, handler, args, env, genModel, requests, matcherVars, parserVars, detectVars, concurrentVars, commitVars, resourceVars>>

\* review_commit / review_pr fetch the commits they review; then
\* detectGenerationModel resolves the generation model (fetching again)
Detect ==
    /\ mode = "review"
    /\ handler \in GitHandlers
    /\ pc = "start"
    /\ \E own \in (IF handler = "review_commit" THEN CommitAnswers
                   ELSE IF handler = "review_pr" THEN PRAnswers ELSE {GhCommits(<<>>)}),
          pr \in (IF args.hasPR THEN PRAnswers ELSE {GhFailed}),
          commit \in (IF args.hasCommit THEN CommitAnswers ELSE {GhFailed}) :
          LET d == detectGenerationModel(args.hasPR, pr, args.hasCommit, commit,
                                         args.generationModel)
              byPR == args.hasPR /\ pr.ok /\ FirstDetected(pr.commits) # <<>>
              io(ownState, detecting) ==
                  [ownFetch |-> ownState,
                   prFetch |-> IF detecting /\ args.hasPR
                               THEN (IF pr.ok THEN "ok" ELSE "failed") ELSE "none",
                   commitFetch |-> IF detecting /\ args.hasCommit /\ ~byPR
                                   THEN (IF commit.ok THEN "ok" ELSE "failed") ELSE "none",
                   prAnswer |-> IF detecting /\ args.hasPR THEN pr ELSE GhFailed,
                   commitAnswer |-> IF detecting /\ args.hasCommit /\ ~byPR
                                    THEN commit ELSE GhFailed,
                   sampling |-> "none", reply |-> NoReply]
          IN  IF handler # "review_code" /\ ~own.ok
              THEN /\ env' = io("failed", FALSE)
                   /\ Return(OnError(handler, args, <<>>,
                                     IF handler = "review_commit" THEN ErrFetchCommit
                                     ELSE ErrFetchPR))
                   /\ UNCHANGED <<genModel, requests>>
              ELSE /\ env' = io(IF handler = "review_code" THEN "none" ELSE "ok", TRUE)
                   /\ IF d.ok
                      THEN /\ genModel' = d.model
                           /\ pc' = "resolved"
                           /\ UNCHANGED <<outcomes, requests>>
                      ELSE /\ Return(OnError(handler, args, <<>>, d.error))
                           /\ UNCHANGED <<genModel, requests>>
    /\ UNCHANGED <<mode, handler, args, matcherVars, parserVars, detectVars, concurrentVars, commitVars, resourceVars>>

\* requestSampling up to its await: the request goes to the client
RequestSampling ==
    /\ mode = "review"
    /\ \/ handler \in GitHandlers /\ pc = "resolved"
       \/ handler \in FallbackHandlers /\ pc = "start" /\ InputAccepts(handler, args)
    /\ LET g == IF handler \in GitHandlers THEN genModel ELSE args.generationModel.value
       IN  /\ genModel' = g
           /\ requests' = Append(requests,
                  SamplingRequest(handler, g, StrategyOf(handler, args),
                                  ReviewTypeOf(handler, args),
                                  promptText(TextArg(args, "language"),
                                             TextArg(args, "context"), CodeOf(args))))
    /\ env' = [env EXCEPT !.sampling = "pending"]
    /\ pc' = "awaiting"
    /\ UNCHANGED <<mode, handler, args, outcomes, matcherVars, parserVars, detectVars, concurrentVars, commitVars, resourceVars>>

\* server.request rejects: the client does not support sampling, or it failed
SamplingFails ==
    /\ mode = "review"
    /\ pc = "awaiting"
    /\ env' = [env EXCEPT !.sampling = "failed"]
    /\ outcomes' = Append(outcomes, OnError(handler, args, genModel, ErrSampling))
    /\ pc' = CatchNextPc(handler)
    /\ UNCHANGED <<mode, handler, args, genModel, requests, matcherVars, parserVars, detectVars, concurrentVars, commitVars, resourceVars>>

\* server.request resolves: the reviewer's text is interpreted
SamplingReplies ==
    /\ mode = "review"
    /\ pc = "awaiting"
    /\ \E reply \in Replies :
          LET o == OnReply(handler, args, genModel, reply)
          IN  /\ env' = [env EXCEPT !.sampling = "ok", !.reply = reply]
              /\ outcomes' = Append(outcomes, o)
              /\ pc' = IF o.kind = "review" THEN "done" ELSE CatchNextPc(handler)
    /\ UNCHANGED <<mode, handler, args, genModel, requests, matcherVars, parserVars, detectVars, concurrentVars, commitVars, resourceVars>>

NextReview == RejectArgs \/ Detect \/ RequestSampling \/ SamplingFails \/ SamplingReplies

SpecReview == InitReview /\ [][NextReview]_vars

-----------------------------------------------------------------------------
(* Two review_code calls of the markdown revision, interleaved at their     *)
(* awaits; cachedPrompts is the only state outside a call                   *)

Calls == {"a", "b"}
Markdown == "review_code_markdown"

\* the prompt files read by loadPrompts
PromptFiles == [loaded |-> TRUE, adversarial |-> "prompts.adversarial",
                biasAware |-> "prompts.biasAware", instructions |-> "prompts.instructions"]

\* loadPrompts(): the cache when it is set, else the files
loadPrompts(cached) == IF cached.loaded THEN cached ELSE PromptFiles

\* getReviewerPrompt(strategy) over the loaded prompts: no case for hybrid
PromptOf(prompts, strategy) ==
    IF strategy = "adversarial" THEN prompts.adversarial
    ELSE IF strategy = "bias_aware" THEN prompts.biasAware
    ELSE "undefined"

\* the arguments a call works on: validatedArgs, a constant of the invocation
OwnArgs_Shared(cs, c) == cs["a"].args
OwnArgs(cs, c) == cs[c].args

CallCodes == {"codeA", "codeB"}
CallArgs ==
    {[code |-> cd, generationModel |-> Given(x), hasPR |-> FALSE, hasCommit |-> FALSE,
      strategy |-> st, reviewType |-> Absent] :
        cd \in CallCodes, x \in {<<"g","p","t","-","4">>, <<"o","1">>},
        st \in {Absent, Given("adversarial"), Given("bias_aware")}}
CallReplies == {[model |-> <<"g","e","m","i","n","i","-","p","r","o">>, text |-> <<XCH>>],
                [model |-> <<>>, text |-> <<XCH, XCH>>]}

NewCall(a) == [args |-> a, pc |-> "start", request |-> <<>>, failed |-> FALSE,
               reply |-> NoReply, outcome |-> <<>>]

InitConcurrent ==
    /\ mode = "concurrent"
    /\ CommitIdle
    /\ ResourceIdle
    /\ calls \in [Calls -> {NewCall(a) : a \in CallArgs}]
    /\ cachedPrompts = NoPrompts
    /\ MatcherIdle
    /\ ReviewIdle
    /\ ParserIdle
    /\ DetectIdle

Thrown == Outcome("thrown", ErrInput, <<>>, <<>>, <<>>, NoValue, <<>>, "none")

\* ReviewCodeInputSchema.parse(args) throws
CallRejected(c) ==
    /\ mode = "concurrent"
    /\ calls[c].pc = "start"
    /\ ~InputAccepts(Markdown, OwnArgs(calls, c))
    /\ calls' = [calls EXCEPT ![c].pc = "done", ![c].outcome = <<Thrown>>]
    /\ UNCHANGED <<mode, cachedPrompts, matcherVars, reviewVars, parserVars, detectVars, commitVars, resourceVars>>

\* requestSampling up to its await: the prompts are loaded (and cached), the
\* request is built from the call's own arguments and sent
CallRequests(c) ==
    /\ mode = "concurrent"
    /\ calls[c].pc = "start"
    /\ InputAccepts(Markdown, OwnArgs(calls, c))
    /\ cachedPrompts' = loadPrompts(cachedPrompts)
    /\ LET a == OwnArgs(calls, c)
           r == SamplingRequest(Markdown, a.generationModel.value,
                                StrategyOf(Markdown, a), ReviewTypeOf(Markdown, a),
                                promptText(TextArg(a, "language"), TextArg(a, "context"),
                                           CodeOf(a)))
           sent == [systemPrompt |-> <<PromptOf(cachedPrompts', StrategyOf(Markdown, a))>>,
                    metadata |-> r.metadata, strategy |-> r.strategy, hints |-> r.hints,
                    userMessage |-> r.userMessage]
       IN  calls' = [calls EXCEPT ![c].pc = "awaiting", ![c].request = <<sent>>]
    /\ UNCHANGED <<mode, matcherVars, reviewVars, parserVars, detectVars, commitVars, resourceVars>>

\* server.request of call c rejects: the catch block builds the fallback
CallFails(c) ==
    /\ mode = "concurrent"
    /\ calls[c].pc = "awaiting"
    /\ LET a == OwnArgs(calls, c)
           o == OnError(Markdown, a, a.generationModel.value, ErrSampling)
           out == [o EXCEPT !.manualPrompt[1] =
                       PromptOf(loadPrompts(cachedPrompts), StrategyOf(Markdown, a))]
       IN  calls' = [calls EXCEPT ![c].pc = "done", ![c].failed = TRUE,
                                  ![c].outcome = <<out>>]
    /\ UNCHANGED <<mode, cachedPrompts, matcherVars, reviewVars, parserVars, detectVars, commitVars, resourceVars>>

\* server.request of call c resolves: the reviewer's text is returned
CallReturns(c) ==
    /\ mode = "concurrent"
    /\ calls[c].pc = "awaiting"
    /\ \E reply \in CallReplies :
          LET a == OwnArgs(calls, c)
          IN  calls' = [calls EXCEPT ![c].pc = "done", ![c].reply = reply,
                           ![c].outcome = <<OnReply(Markdown, a, a.generationModel.value, reply)>>]
    /\ UNCHANGED <<mode, cachedPrompts, matcherVars, reviewVars, parserVars, detectVars, commitVars, resourceVars>>

NextConcurrent ==
    \E c \in Calls : CallRejected(c) \/ CallRequests(c) \/ CallFails(c) \/ CallReturns(c)

SpecConcurrent == InitConcurrent /\ [][NextConcurrent]_vars

\* C19: for any interleaving of two concurrent review calls, each call's
\* sampling request (system prompt, user message, exclusion metadata, hints)
\* and final outcome are those of the call running alone; no call sees the
\* other's generation model, strategy or response, and the cached prompts
\* have one value for both.
AloneRequest(a) ==
    [systemPrompt |-> <<getReviewerPrompt(Markdown, StrategyOf(Markdown, a))>>,
     metadata |-> [excludeModel |-> a.generationModel.value,
                   excludeFamily |-> toLowerCase(a.generationModel.value),
                   reviewContext |-> "bias_resistant_code_review",
                   reviewStrategy |-> StrategyOf(Markdown, a)],
     strategy |-> StrategyOf(Markdown, a),
     hints |-> createFallbackHints(a.generationModel.value),
     userMessage |-> promptText(TextArg(a, "language"), TextArg(a, "context"), CodeOf(a))]
AloneOutcome(call) ==
    IF ~InputAccepts(Markdown, call.args) THEN Thrown
    ELSE IF call.failed
    THEN OnError(Markdown, call.args, call.args.generationModel.value, ErrSampling)
    ELSE OnReply(Markdown, call.args, call.args.generationModel.value, call.reply)
C19_CallsIndependent ==
    /\ cachedPrompts \in {NoPrompts, PromptFiles}
    /\ \A c \in DOMAIN calls :
          /\ calls[c].request # <<>> => calls[c].request = <<AloneRequest(calls[c].args)>>
          /\ calls[c].outcome # <<>> => calls[c].outcome = <<AloneOutcome(calls[c])>>
C19_Witness ==
    /\ mode = "concurrent"
    /\ calls["a"].args.generationModel # calls["b"].args.generationModel
    /\ calls["a"].args.strategy.given /\ calls["b"].args.strategy.given
    /\ calls["a"].args.strategy # calls["b"].args.strategy
    /\ calls["a"].args.code # calls["b"].args.code
    /\ calls["a"].pc = "done" /\ calls["a"].failed
    /\ calls["b"].pc = "done" /\ calls["b"].reply # NoReply

-----------------------------------------------------------------------------
(* Properties of a review tool call *)

Range(f) == {f[i] : i \in DOMAIN f}
Supplied == args.generationModel.given /\ Truthy(args.generationModel.value)
Finished == pc = "done" /\ Len(outcomes) = 1

\* C2: when the sampling request of a review_code call fails, no name in the
\* fallback's recommendedModels overlaps the supplied generationModel
\* (shouldExcludeModel(generationModel, r) is false for each of them).
C2_FallbackAvoidsGenerationModel ==
    (handler \in FallbackHandlers /\ env.sampling = "failed" /\ Finished) =>
        /\ outcomes[1].recommendedModels = createFallbackHints(args.generationModel.value)
        /\ \A r \in Range(outcomes[1].recommendedModels) :
               ~shouldExcludeModel(args.generationModel.value, r)

\* C3: whenever the sampling request of a review operation errors, the
\* operation ends in the manual fallback outcome, not in a hard error.
C3_SamplingErrorFallsBack ==
    (env.sampling = "failed" /\ Finished) =>
        /\ outcomes[1].kind = "fallback"
        /\ ~outcomes[1].isError
        /\ outcomes[1].error = ErrSampling

\* C4: when sampling succeeded and the reviewer's text fails JSON parsing or
\* schema validation, the call ends in an explicit error carrying that
\* reason: neither a review nor the manual fallback.
C4_BadResponseIsError ==
    (handler \in ParsingHandlers /\ env.sampling = "ok" /\ Finished
       /\ outcomes[1].error \in {ErrParse, ErrValidation}) =>
        /\ outcomes[1].kind = "error"
        /\ ~outcomes[1].samplingFailed

\* C5: in review_code, review_commit and review_pr, when the fetch of the
\* authorship metadata fails and the caller supplied a generationModel, the
\* review goes on: the sampling request is issued with the caller's model.
FetchFailed ==
    /\ "failed" \in {env.ownFetch, env.prFetch, env.commitFetch}
    /\ "ok" \notin {env.prFetch, env.commitFetch}
C5_FetchFailureKeepsCallerModel ==
    (handler \in GitHandlers /\ pc # "start" /\ FetchFailed /\ Supplied) =>
        /\ genModel = args.generationModel.value
        /\ pc = "resolved" => outcomes = <<>>
        /\ pc # "resolved" =>
              /\ Len(requests) = 1
              /\ requests[1].metadata.excludeModel = args.generationModel.value

\* C6: detectGenerationModel fails with the missing-model error exactly when
\* no model is detected from the PR, none from the commit, and the caller
\* supplied no non-empty model; then the review ends in an error without any
\* sampling request; otherwise the resolved model is a non-empty identifier.
DetectedFrom(state, answer) ==
    IF state = "ok" /\ \E i \in 1..Len(answer.commits) :
                          detectModelFromCoAuthors(answer.commits[i]) # <<>>
    THEN TRUE ELSE FALSE
NothingAvailable ==
    /\ ~DetectedFrom(env.prFetch, env.prAnswer)
    /\ ~DetectedFrom(env.commitFetch, env.commitAnswer)
    /\ ~Supplied
MissingModelRaised ==
    /\ Finished
    /\ outcomes[1].error = ErrMissingModel
C6_MissingModelExactly ==
    (handler \in GitHandlers /\ pc # "start" /\ env.ownFetch # "failed") =>
        /\ NothingAvailable <=> MissingModelRaised
        /\ MissingModelRaised => (outcomes[1].isError /\ requests = <<>>)
        /\ ~NothingAvailable => Truthy(genModel)
C6_Witness ==
    /\ handler \in GitHandlers
    /\ env.prFetch = "failed"
    /\ args.generationModel.given /\ args.generationModel.value = <<>>
    /\ MissingModelRaised
    /\ requests = <<>>

\* C7: a review operation issues at most one sampling request; after the
\* request failed or its response was rejected no further request is sent,
\* and the operation ends with exactly one outcome.
C7_OneRequestOneOutcome ==
    /\ Len(requests) <= 1
    /\ Len(outcomes) <= 1
    /\ env.sampling \in {"failed", "ok"} => (pc = "done" /\ Len(outcomes) = 1 /\ Len(requests) = 1)
    /\ outcomes # <<>> => pc = "done"
C7_Witness ==
    /\ env.sampling = "ok"
    /\ Finished
    /\ outcomes[1].kind # "review"
    /\ Len(requests) = 1

\* C8: validation depends on the strategy: under bias_aware and hybrid a
\* response without biasTriggersFound is rejected, under adversarial a
\* response without biasTriggersFound is accepted.
MetricsOf(txt) == IF txt \in DOMAIN MetricsStated THEN MetricsStated[txt] ELSE {}
LacksBiasTriggers == "biasTriggersFound:" \notin Range(env.reply.text)
WellFormedReply ==
    \E ms \in MetricsOf(env.reply.text) :
        \A k \in 1..Len(MetricKeys) : ms[k] \in MetricMin..MetricMax
C8_BiasTriggersByStrategy ==
    (handler = "review_code_strategy" /\ env.sampling = "ok" /\ Finished
       /\ WellFormedReply /\ LacksBiasTriggers) =>
        (outcomes[1].kind = "review" <=> args.strategy.value = "adversarial")

C11_DefaultStrategy ==
    (handler = "review_code_markdown" /\ ~args.strategy.given /\ pc = "done") =>
        /\ Len(requests) = 1
        /\ requests[1].systemPrompt = <<"prompts.biasAware">>
        /\ requests[1].strategy = "bias_aware"
        /\ Len(outcomes) = 1
        /\ outcomes[1].kind \in {"review", "fallback"}
        /\ outcomes[1].strategy = "bias_aware"

\* C17: in every sampling request excludeModel is the resolved generation
\* model exactly as given and excludeFamily is that model lower-cased; adding
\* the hints (and the review strategy) leaves both and reviewContext as
\* createModelPreferences set them.
ResolvedModel ==
    IF handler \in FallbackHandlers THEN args.generationModel.value ELSE genModel
HasUpper(x) == \E i \in 1..Len(x) : \E k \in 1..Len(UpperChars) : x[i] = UpperChars[k]
C17_ExclusionMetadata ==
    \A i \in 1..Len(requests) :
        /\ requests[i].metadata.excludeModel = ResolvedModel
        /\ Len(requests[i].metadata.excludeFamily) = Len(ResolvedModel)
        /\ ~HasUpper(requests[i].metadata.excludeFamily)
        /\ toLowerCase(requests[i].metadata.excludeFamily) = toLowerCase(ResolvedModel)
        /\ requests[i].metadata.reviewContext = "bias_resistant_code_review"
        /\ handler \in FallbackHandlers =>
              requests[i].metadata.reviewStrategy = StrategyOf(handler, args)
C17_Witness ==
    /\ Len(requests) = 1
    /\ handler = "review_code_strategy"
    /\ HasUpper(ResolvedModel)
    /\ requests[1].metadata.excludeModel = ResolvedModel
    /\ requests[1].metadata.excludeFamily # ResolvedModel
    /\ requests[1].metadata.reviewStrategy = "hybrid"

\* C18: createFallbackHints steers away from the generator's family: a model
\* naming only gpt/openai gets claude/anthropic and gemini/google names
\* only, likewise for the two other families, and a model naming none of
\* them gets exactly claude, gpt, gemini.
OpenAIWords    == {Sgpt, Sopenai}
AnthropicWords == {Sclaude, Santhropic}
GoogleWords    == {Sgemini, Sgoogle}
Names(g, words) == \E w \in words : includes(toLowerCase(g), w)
HintsSteerAway(g, hints) ==
    LET o == Names(g, OpenAIWords)
        a == Names(g, AnthropicWords)
        gg == Names(g, GoogleWords)
        hs == Range(hints)
    IN  /\ hints # <<>>
        /\ (o /\ ~a /\ ~gg) => hs \subseteq AnthropicWords \cup GoogleWords
        /\ (a /\ ~o /\ ~gg) => hs \subseteq OpenAIWords \cup GoogleWords
        /\ (gg /\ ~o /\ ~a) => hs \subseteq AnthropicWords \cup OpenAIWords
        /\ (~o /\ ~a /\ ~gg) => hints = <<Sclaude, Sgpt, Sgemini>>
C18_HintsAvoidFamily ==
    /\ \A i \in 1..Len(requests) : HintsSteerAway(ResolvedModel, requests[i].hints)
    /\ \A i \in 1..Len(outcomes) :
           outcomes[i].kind = "fallback" =>
               HintsSteerAway(args.generationModel.value, outcomes[i].recommendedModels)
C18_Witness ==
    /\ Len(requests) = 1
    /\ Names(ResolvedModel, AnthropicWords)
    /\ ~Names(ResolvedModel, OpenAIWords) /\ ~Names(ResolvedModel, GoogleWords)
    /\ requests[1].hints = <<Sgpt, Sgemini, Sopenai>>

\* C20: the system prompt sent with a review holds the focus guidance of
\* the requested reviewType (one of four different texts), and the general
\* one when the call names no reviewType.
RequestedType == IF args.reviewType.given THEN args.reviewType.value ELSE "general"
C20_PromptHasTypeGuidance ==
    \A i \in 1..Len(requests) :
        /\ typeSpecificGuidance[RequestedType] \in Range(requests[i].systemPrompt)
        /\ \A t \in ReviewTypes \ {RequestedType} :
               typeSpecificGuidance[t] \notin Range(requests[i].systemPrompt)

-----------------------------------------------------------------------------
(* fetchCommit: the author list of a commit, co-authors parsed from the     *)
(* commit message                                                            *)

IsSpace(c) == c \in {" ", LF}

\* String.prototype.trim on a text of characters
RECURSIVE StrTrim(_)
StrTrim(s) ==
    IF s = <<>> THEN s
    ELSE IF IsSpace(s[1]) THEN StrTrim(Tail(s))
    ELSE IF IsSpace(s[Len(s)]) THEN StrTrim(SubSeq(s, 1, Len(s) - 1))
    ELSE s

\* the first index k >= i with s[k] = c, 0 when there is none
IndexFrom(s, c, i) ==
    IF \E k \in i..Len(s) : s[k] = c
    THEN CHOOSE k \in i..Len(s) : s[k] = c /\ \A h \in i..(k - 1) : s[h] # c
    ELSE 0

CoAuthorKey == <<"c","o","-","a","u","t","h","o","r","e","d","-","b","y",":">>

\* /Co-Authored-By:\s*([^<]+)<([^>]+)>/i tried at index i: the key, then the
\* run of characters other than "<" (at least one, line breaks included),
\* "<", the run of characters other than ">" (at least one), ">"
coAuthorPattern(message, i) ==
    LET j == i + Len(CoAuthorKey)
        k == IndexFrom(message, "<", j)
        l == IF k = 0 THEN 0 ELSE IndexFrom(message, ">", k + 1)
    IN  IF MatchesAt(toLowerCase(message), CoAuthorKey, i) /\ k > j /\ l > k + 1
        THEN [found |-> TRUE, name |-> SubSeq(message, j, k - 1),
              email |-> SubSeq(message, k + 1, l - 1), lastIndex |-> l + 1]
        ELSE [found |-> FALSE, name |-> <<>>, email |-> <<>>, lastIndex |-> 0]

\* name.toLowerCase().replace(/\s+/g, '-')
RECURSIVE DashSpaces(_)
DashSpaces(s) ==
    IF s = <<>> THEN s
    ELSE IF IsSpace(s[1])
    THEN IF Len(s) > 1 /\ IsSpace(s[2]) THEN DashSpaces(Tail(s))
         ELSE <<"-">> \o DashSpaces(Tail(s))
    ELSE <<s[1]>> \o DashSpaces(Tail(s))
LoginOfName(name) == DashSpaces(toLowerCase(name))

CoAuthorRecord(name, email) ==
    Author({"name", "email", "login"}, StrTrim(name), StrTrim(email),
           LoginOfName(StrTrim(name)))

\* the while loop over coAuthorPattern.exec(message), from lastIndex on
RECURSIVE CoAuthorsFrom(_, _)
CoAuthorsFrom(message, lastIndex) ==
    IF \E i \in lastIndex..Len(message) : coAuthorPattern(message, i).found
    THEN LET i == CHOOSE i \in lastIndex..Len(message) :
                      /\ coAuthorPattern(message, i).found
                      /\ \A h \in lastIndex..(i - 1) : ~coAuthorPattern(message, h).found
             match == coAuthorPattern(message, i)
         IN  <<CoAuthorRecord(match.name, match.email)>>
                 \o CoAuthorsFrom(message, match.lastIndex)
    ELSE <<>>

ErrFetchCommitFailed == "Failed to fetch commit"

\* fetchCommit: [ok, authors, error]; ok = FALSE is the thrown Error
fetchCommit(d) ==
    IF d.failed THEN [ok |-> FALSE, authors |-> <<>>, error |-> ErrFetchCommitFailed]
    ELSE [ok |-> TRUE,
          authors |-> <<Author({"name", "email", "login"}, d.name, d.email, d.login)>>
                          \o CoAuthorsFrom(d.message, 1),
          error |-> ""]

\* ---- commits handed to fetchCommit
PrimaryAnn    == [name |-> <<"A","n","n">>, email |-> <<"a","@","x",".","i","o">>, login |-> <<"a","n","n">>]
PrimaryClaude == [name |-> <<"C","l","a","u","d","e">>, email |-> <<"c","@","x",".","i","o">>, login |-> <<>>]
Primaries == {PrimaryAnn, PrimaryClaude}

LineText      == <<"f","i","x">>
LineClaude    == <<"C","o","-","A","u","t","h","o","r","e","d","-","B","y",":"," ","C","l","a","u","d","e"," ","<","c","@","a","n","t","h","r","o","p","i","c",".","c","o","m",">">>
LineGpt       == <<"c","o","-","a","u","t","h","o","r","e","d","-","b","y",":"," "," ","G","P","T"," "," ","B","o","t","<","g","@","x",".","i","o",">">>
LineNoEmail   == <<"C","o","-","A","u","t","h","o","r","e","d","-","B","y",":"," ","B","o","b">>
LinePool == {LineText, LineClaude, LineGpt, LineNoEmail}

MaxLines == 3

RECURSIVE JoinLines(_)
JoinLines(ls) ==
    IF Len(ls) = 0 THEN <<>>
    ELSE IF Len(ls) = 1 THEN ls[1]
    ELSE ls[1] \o <<LF>> \o JoinLines(Tail(ls))

Messages == {JoinLines(ls) : ls \in UNION {[1..n -> LinePool] : n \in 1..MaxLines}}

InitCommit ==
    /\ mode = "commit"
    /\ \E p \in Primaries, msg \in Messages, f \in BOOLEAN :
          data = [failed |-> f, name |-> p.name, email |-> p.email,
                  login |-> p.login, message |-> msg]
    /\ fetched = NoCommit
    /\ MatcherIdle
    /\ ReviewIdle
    /\ ParserIdle
    /\ DetectIdle
    /\ ConcurrentIdle
    /\ ResourceIdle

\* fetchCommit returns (or throws), and detection runs on the returned list
FetchCommit ==
    /\ mode = "commit"
    /\ ~fetched.done
    /\ LET r == fetchCommit(data)
       IN  fetched' = [done |-> TRUE, ok |-> r.ok, authors |-> r.authors,
                       model |-> IF r.ok THEN detectModelFromCoAuthors(r.authors) ELSE <<>>]
    /\ UNCHANGED <<mode, data, matcherVars, reviewVars, parserVars, detectVars,
                   concurrentVars, resourceVars>>

NextCommit == FetchCommit

SpecCommit == InitCommit /\ [][NextCommit]_vars

\* the lines of a message
RECURSIVE LinesOf(_)
LinesOf(message) ==
    LET n == IndexFrom(message, LF, 1)
    IN  IF n = 0 THEN <<message>>
        ELSE <<SubSeq(message, 1, n - 1)>> \o LinesOf(SubSeq(message, n + 1, Len(message)))

\* a trailer "Co-Authored-By: name <email>": a line made of the key, a name,
\* and an e-mail address between angle brackets
IsTrailer(line) ==
    LET j == 1 + Len(CoAuthorKey)
        k == IndexFrom(line, "<", j)
    IN  /\ MatchesAt(toLowerCase(line), CoAuthorKey, 1)
        /\ k > j
        /\ StrTrim(SubSeq(line, j, k - 1)) # <<>>
        /\ IndexFrom(line, ">", k + 1) = Len(line)
        /\ Len(line) > k + 1
TrailerRecord(line) ==
    LET j == 1 + Len(CoAuthorKey)
        k == IndexFrom(line, "<", j)
    IN  CoAuthorRecord(SubSeq(line, j, k - 1), SubSeq(line, k + 1, Len(line) - 1))
RECURSIVE TrailerRecords(_)
TrailerRecords(ls) ==
    IF ls = <<>> THEN <<>>
    ELSE (IF IsTrailer(ls[1]) THEN <<TrailerRecord(ls[1])>> ELSE <<>>)
             \o TrailerRecords(Tail(ls))

\* C22: fetchCommit returns the primary author first, then exactly one record
\* (name, email, login derived from the name) per Co-Authored-By trailer of
\* the message, in the order of the trailers; when the primary author and a
\* co-author both match a signature, the primary author decides detection.
C22_AuthorsFromTrailers ==
    (fetched.done /\ fetched.ok) =>
        /\ fetched.authors =
              <<Author({"name", "email", "login"}, data.name, data.email, data.login)>>
                  \o TrailerRecords(LinesOf(data.message))
        /\ AuthorModel(fetched.authors[1]) # <<>> =>
              fetched.model = AuthorModel(fetched.authors[1])

\* C21: every strategy the input schema accepts (adversarial, bias_aware,
\* hybrid) maps to a defined system prompt of that same strategy, in the
\* sampling request and in the manual fallback prompt, and the reported
\* strategy names the strategy whose prompt was used.
PromptStrategy(prompt) ==
    IF prompt \in {"ADVERSARIAL_REVIEWER_PROMPT", "prompts.adversarial"} THEN "adversarial"
    ELSE IF prompt \in {"BIAS_AWARE_REVIEWER_PROMPT", "prompts.biasAware"} THEN "bias_aware"
    ELSE IF prompt \in {"HYBRID_REVIEWER_PROMPT"} THEN "hybrid"
    ELSE "no strategy"
C21_StrategyHasPrompt ==
    (handler \in FallbackHandlers /\ InputAccepts(handler, args)) =>
        /\ \A i \in 1..Len(requests) :
               /\ Len(requests[i].systemPrompt) = 1
               /\ PromptStrategy(requests[i].systemPrompt[1]) = args.strategy.value
        /\ \A i \in 1..Len(outcomes) :
               /\ outcomes[i].strategy = args.strategy.value
               /\ outcomes[i].kind = "fallback" =>
                      PromptStrategy(outcomes[i].manualPrompt[1]) = args.strategy.value

\* C23: in every successful review result reviewModel is the model of the
\* sampling response, or "unknown" when the response names none, whatever
\* the reviewer's text holds.
C23_ReviewModelFromResponse ==
    (handler \in ParsingHandlers /\ env.sampling = "ok" /\ Finished
       /\ outcomes[1].kind = "review") =>
        outcomes[1].review.v["reviewModel:"] =
            JStr(IF Truthy(env.reply.model) THEN env.reply.model ELSE Sunknown)

\* C24: in every successful result of the strategy-aware review_code handler
\* the reviewStrategy of the structured result is the strategy the caller
\* requested, and the one shown in the text, whatever the reviewer's
\* response contains.
C24_ReviewStrategyFromCaller ==
    (handler = "review_code_strategy" /\ env.sampling = "ok" /\ Finished
       /\ outcomes[1].kind = "review") =>
        /\ outcomes[1].review.v["reviewStrategy:"] = JStr(<<args.strategy.value>>)
        /\ outcomes[1].strategy = args.strategy.value

\* C28: a response in which a metric is a number inside the bounds but not
\* an integer is rejected by validation; every metric of an accepted review
\* result is an integer.
C28_MetricsAreIntegers ==
    (handler \in ParsingHandlers /\ env.sampling = "ok" /\ Finished
       /\ outcomes[1].kind = "review") =>
        /\ env.reply.text \notin FractionTexts
        /\ \A i \in 1..Len(MetricKeys) :
               Len(outcomes[1].review.v["metrics:"].v[MetricKeys[i]].v) = 1

\* C25: detectGenerationModel consults the commits of the PR in list order
\* (the first commit with a detected model wins), then the single commit,
\* then the caller's model; a detected model is returned even when the
\* caller supplied a different generationModel, whose value is used only
\* when neither detection yields a model.
ModelOfFirst(answer) ==
    LET hits == {i \in 1..Len(answer.commits) :
                    detectModelFromCoAuthors(answer.commits[i]) # <<>>}
    IN  detectModelFromCoAuthors(
            answer.commits[CHOOSE i \in hits : \A j \in hits : i <= j])
C25_DetectionOrder ==
    (handler \in GitHandlers /\ pc # "start" /\ env.ownFetch # "failed") =>
        LET byPR == DetectedFrom(env.prFetch, env.prAnswer)
            byCommit == DetectedFrom(env.commitFetch, env.commitAnswer)
        IN  /\ byPR => (genModel = ModelOfFirst(env.prAnswer) /\ env.commitFetch = "none")
            /\ (~byPR /\ byCommit) => genModel = ModelOfFirst(env.commitAnswer)
            /\ (~byPR /\ ~byCommit /\ Supplied) => genModel = args.generationModel.value
C25_Witness ==
    /\ handler = "review_code"
    /\ pc = "resolved"
    /\ args.hasCommit
    /\ DetectedFrom(env.prFetch, env.prAnswer)
    /\ Len(env.prAnswer.commits) = 3
    /\ Supplied
    /\ genModel = Igpt4
    /\ args.generationModel.value # genModel

\* C26: within one author the signatures are tested in the order Claude,
\* GPT/OpenAI, Copilot, Gemini and the first match decides; the author maps
\* to github-copilot only if no earlier signature matches and the name
\* contains copilot or the email contains github.com and the login contains
\* copilot; an email at github.com alone never produces a detection.
Low(a, f) == toLowerCase(FieldOr(a, f))
ClaudeSignature(a) ==
    includes(Low(a, "name"), Sclaude) \/ includes(Low(a, "email"), SanthropicCom)
        \/ includes(Low(a, "login"), Sclaude)
GptSignature(a) ==
    includes(Low(a, "name"), Sgpt) \/ includes(Low(a, "name"), Sopenai)
        \/ includes(Low(a, "email"), SopenaiCom) \/ includes(Low(a, "login"), Sgpt)
GeminiSignature(a) ==
    includes(Low(a, "name"), Sgemini) \/ includes(Low(a, "name"), Sbard)
        \/ includes(Low(a, "email"), SgoogleCom)
C26_SignatureOrder ==
    (detected.done /\ Len(coAuthors) = 1) =>
        LET a == coAuthors[1]
            model == detected.current.model
        IN  /\ ClaudeSignature(a) => model = Iclaude
            /\ (~ClaudeSignature(a) /\ GptSignature(a)) => model = Igpt4
            /\ model = Icopilot <=>
                   /\ ~ClaudeSignature(a) /\ ~GptSignature(a)
                   /\ \/ includes(Low(a, "name"), Scopilot)
                      \/ includes(Low(a, "email"), SgithubCom)
                            /\ includes(Low(a, "login"), Scopilot)
            /\ model = Igemini <=>
                   /\ ~ClaudeSignature(a) /\ ~GptSignature(a)
                   /\ ~includes(Low(a, "name"), Scopilot)
                   /\ ~(includes(Low(a, "email"), SgithubCom)
                           /\ includes(Low(a, "login"), Scopilot))
                   /\ GeminiSignature(a)
            /\ (includes(Low(a, "email"), SgithubCom) /\ ~includes(Low(a, "login"), Scopilot)
                  /\ ~includes(Low(a, "name"), Scopilot)
                  /\ ~ClaudeSignature(a) /\ ~GptSignature(a) /\ ~GeminiSignature(a)) =>
                   model = <<>>
C26_Witness ==
    /\ detected.done
    /\ Len(coAuthors) = 1
    /\ includes(Low(coAuthors[1], "email"), SgithubCom)
    /\ ~includes(Low(coAuthors[1], "login"), Scopilot)
    /\ detected.current.model = <<>>

\* C29: the family matcher is symmetric: hasModelOverlap(a, b) equals
\* hasModelOverlap(b, a), and shouldExcludeModel(a, b) equals
\* shouldExcludeModel(b, a).
C29_MatcherSymmetric ==
    ovl.done =>
        /\ ovl.overlap = hasModelOverlap(m2, m1)
        /\ ovl.exclude = shouldExcludeModel(m2, m1)
C29_Witness ==
    /\ ovl.done
    /\ m1 # m2
    /\ Truthy(BaseOf(toLowerCase(m1)))
    /\ ~Truthy(BaseOf(toLowerCase(m2)))
    /\ ovl.overlap
    /\ ovl.exclude

-----------------------------------------------------------------------------
(* The strategy-aware review_code handler (part_003) called with a language *)
(* and a context                                                             *)

OptionalTexts == {Absent, Given(<<>>), Given(<<"ts">>)}
FallbackArgs ==
    {[generationModel |-> Given(x), hasPR |-> FALSE, hasCommit |-> FALSE,
      strategy |-> st, reviewType |-> Absent, language |-> l, context |-> c,
      code |-> "codeA"] :
        x \in {<<"g","p","t","-","4">>, <<"o","1">>},
        st \in {Absent} \cup {Given(n) : n \in StrategyNames},
        l \in OptionalTexts, c \in OptionalTexts}

InitFallback ==
    /\ mode = "review"
    /\ handler = "review_code_strategy"
    /\ args \in FallbackArgs
    /\ env = NoIO
    /\ pc = "start"
    /\ genModel = <<>>
    /\ requests = <<>>
    /\ outcomes = <<>>
    /\ MatcherIdle
    /\ ParserIdle
    /\ DetectIdle
    /\ ConcurrentIdle
    /\ CommitIdle
    /\ ResourceIdle

NextFallback == RejectArgs \/ RequestSampling \/ SamplingFails \/ SamplingReplies

SpecFallback == InitFallback /\ [][NextFallback]_vars

\* C27: in the manual fallback, manualPrompt is the system prompt of the
\* attempted sampling request, a blank line, and the exact user message of
\* that request (same language tag, context text and code fence), and
\* recommendedModels is the names of the hints sent in that request.
C27_FallbackRendersRequest ==
    (handler = "review_code_strategy" /\ Finished /\ outcomes[1].kind = "fallback") =>
        /\ Len(requests) = 1
        /\ outcomes[1].manualPrompt =
               requests[1].systemPrompt \o <<LF, LF>> \o requests[1].userMessage
        /\ outcomes[1].recommendedModels = requests[1].hints
C27_Witness ==
    /\ handler = "review_code_strategy"
    /\ Finished
    /\ outcomes[1].kind = "fallback"
    /\ env.sampling = "failed"
    /\ args.language = Given(<<"ts">>)
    /\ args.context = Given(<<"ts">>)
    /\ Len(requests) = 1
    /\ Len(outcomes[1].manualPrompt) > Len(requests[1].userMessage)

-----------------------------------------------------------------------------
(* server.ts: the resources.  A uri is a sequence of tokens: "/" and the    *)
(* texts between slashes.                                                    *)

SLASH == "/"
TemplatesPrefix == <<"review:", SLASH, SLASH, "templates", SLASH>>
TemplateTypes == <<"security", "performance", "maintainability", "general">>

\* ListResources: the uris the server advertises
ListResources == {TemplatesPrefix \o <<TemplateTypes[i]>> : i \in 1..Len(TemplateTypes)}

\* String.prototype.startsWith
startsWith(s, w) == MatchesAt(s, w, 1)

\* uri.split("/").pop(): the text after the last slash
RECURSIVE LastSegment(_)
LastSegment(s) ==
    IF s = <<>> \/ s[Len(s)] = SLASH THEN <<>>
    ELSE LastSegment(SubSeq(s, 1, Len(s) - 1)) \o <<s[Len(s)]>>

ErrUnknownResource == "Unknown resource"

\* the ReadResource handler: [ok, reviewType, error]; ok = FALSE is the
\* thrown Error
ReadResourceOf(u) ==
    LET reviewType == LastSegment(u)
    IN  IF startsWith(u, TemplatesPrefix)
           /\ \E i \in 1..Len(TemplateTypes) : reviewType = <<TemplateTypes[i]>>
        THEN [ok |-> TRUE, reviewType |-> reviewType, error |-> ""]
        ELSE [ok |-> FALSE, reviewType |-> <<>>, error |-> ErrUnknownResource]

\* uris a client asks for
MaxSegments == 2
UriWords == {"security", "performance", "general", "other", "templates"}
RECURSIVE JoinPath(_)
JoinPath(ws) ==
    IF Len(ws) = 0 THEN <<>>
    ELSE IF Len(ws) = 1 THEN <<ws[1]>>
    ELSE <<ws[1], SLASH>> \o JoinPath(Tail(ws))
UriPaths == {JoinPath(ws) : ws \in UNION {[1..n -> UriWords] : n \in 0..MaxSegments}}
Uris == {pre \o path :
            pre \in {TemplatesPrefix, <<"review:", SLASH, SLASH, "other", SLASH>>,
                     <<"file:", SLASH, SLASH>>},
            path \in UriPaths}

InitResource ==
    /\ mode = "resource"
    /\ uri \in Uris
    /\ resource = NoResource
    /\ MatcherIdle
    /\ ReviewIdle
    /\ ParserIdle
    /\ DetectIdle
    /\ ConcurrentIdle
    /\ CommitIdle

\* a client reads the resource at uri
ReadResource ==
    /\ mode = "resource"
    /\ ~resource.done
    /\ LET r == ReadResourceOf(uri)
       IN  resource' = [done |-> TRUE, ok |-> r.ok, reviewType |-> r.reviewType]
    /\ UNCHANGED <<mode, uri, matcherVars, reviewVars, parserVars, detectVars,
                   concurrentVars, commitVars>>

NextResource == ReadResource

SpecResource == InitResource /\ [][NextResource]_vars

\* C30: ReadResource returns a template only for the four uris that
\* ListResources advertises; every other uri, also one with further path
\* segments before the final type name, fails with Unknown resource.
C30_OnlyAdvertisedResources ==
    resource.done =>
        /\ resource.ok <=> uri \in ListResources
        /\ resource.ok => uri = TemplatesPrefix \o resource.reviewType

====
